---- MODULE Spec2Model ----
(***************************************************************************)
(* A model of lmdbpp (src/lmdbpp.h): the env_t, txn_t and dbi_t wrappers   *)
(* and the part of the LMDB engine they drive through the mdb_* calls.     *)
(*                                                                         *)
(* Wrapper objects are records that carry the fields of the C++ classes.   *)
(* Native handles are small integers, 0 is nullptr.  A native handle is    *)
(* never reused, so a pointer the wrapper still holds after the engine     *)
(* released it is visible as a handle whose engine state is "freed".       *)
(* Passing such a handle to the engine is undefined behaviour: the step    *)
(* sets ub and either goes on or crashes the process (crashed).            *)
(***************************************************************************)
EXTENDS Integers, FiniteSets, Sequences, TLC

\* ---------------------------------------------------------------- bounds
MaxNativeTxns == 2     \* native transactions the engine hands out in a run
MaxEnvHandles == 1     \* native environments the engine hands out in a run
MaxEnvReopens == 2     \* and those it hands out on top where the env_t is reopened
MaxStale == 1          \* reader slots dead processes leave in the lock table
NumKeys == 1           \* distinct keys stored in the sub-database
NumVals == 2           \* distinct values
MaxCursorKeys == 3     \* distinct keys in the sub-database a cursor walks
MaxLen == 2            \* elements in a buffer the codec is given

\* The program: one env_t, one dbi_t, and two threads with a txn_t each.
TxnObjs == {1, 2}
\* The txn_t the data calls are made with.
DataObjs == {1}
NativeTxns == 1..MaxNativeTxns
EnvHandles == 1..(MaxEnvHandles + MaxEnvReopens)
Keys == 1..NumKeys
Vals == 1..NumVals

\* ------------------------------------------------------- program constants
DEFAULT_MAXDBS == 128
DEFAULT_MAXREADERS == 512
DEFAULT_MMAPSIZE == 2048   \* 2 GiB, counted in MiB
DEFAULT_MODE == 420        \* 0644
MAIN_DBI == 1           \* the handle of the unnamed database
SUB_DBI == 2            \* the first handle the engine gives a named sub-database

NoVal == 0             \* "no value" in what a call reports
NoKey == 0             \* "no key" in what a call reports
\* The databases of a store: the unnamed one and one named sub-database.
DbNames == {"", "sub"}
DbiOf(name) == IF name = "" THEN MAIN_DBI ELSE SUB_DBI
NameOf(d) == IF d = MAIN_DBI THEN "" ELSE "sub"
\* A database: whether it exists, whether it keeps duplicates (MDB_DUPSORT), and
\* the values stored under each key.
NoDb == [exists |-> FALSE, dup |-> FALSE, kv |-> [k \in Keys |-> {}]]
\* The image of a fresh store: the unnamed database, empty.
EmptyDb == [name \in DbNames |-> IF name = "" THEN [NoDb EXCEPT !.exists = TRUE] ELSE NoDb]
DbImages == [DbNames -> [exists : BOOLEAN, dup : BOOLEAN, kv : [Keys -> SUBSET Vals]]]
\* Flags of dbi_t::open and of dbi_t::put the program uses.
DbiFlagNames == {"MDB_CREATE", "MDB_DUPSORT"}
PutFlagSets == {{}, {"MDB_NOOVERWRITE"}, {"MDB_NODUPDATA"}}

TxnTypes == {"readonly", "readwrite"}
EnvFlagNames == {"MDB_NOSUBDIR", "MDB_EPHEMERAL"}
\* Values the configuration mutators are called with.
DbsVals == {DEFAULT_MAXDBS, 4}
ReadersVals == {DEFAULT_MAXREADERS, 8}
MapVals == {DEFAULT_MMAPSIZE, 1}
ModeVals == {DEFAULT_MODE, 384}
PathVals == {"", "data"}
\* Paths a backing store can live at, and its layout (TRUE: a single file).
Paths == {"", "cwd", "cwd/lmdb.mdb", "data"}
Locations == Paths \X BOOLEAN
\* The file system the program runs in: "cwd" is a directory, no other path is,
\* so the engine can open the directory layout at "cwd" and the single-file
\* layout at the other paths.
Openable(loc) == loc[1] # "" /\ (loc[1] = "cwd" <=> ~loc[2])
NoLoc == <<"", FALSE>>

VARIABLES
    env,       \* the env_t object: its fields
    henv,      \* engine: state of every native environment handle
    disk,      \* per location: do backing files exist, and the committed image
    txn,       \* the txn_t objects: their fields, and whether they are alive
    pc,        \* per txn_t: "idle", or "in_begin" while inside mdb_txn_begin
    ntxn,      \* engine: state of every native transaction handle
    dbi,       \* the dbi_t object: its fields
    last,      \* the call that made the last step, and what it returned
    ub,        \* the engine has been passed a handle it does not hold
    crashed,   \* an undefined call brought the process down
    io,        \* the codec: the last conversion, its MDB_val and the memory around it
    other,     \* a second env_t object, the other side of a move
    cur        \* the cursor_t object: its store, its position, and the keys it returned

vars == <<env, henv, disk, txn, pc, ntxn, dbi, last, ub, crashed, io, other, cur>>

\* ------------------------------------------------------------ engine view
FreeNative == [state |-> "unused", rdonly |-> TRUE, env |-> 0, view |-> EmptyDb,
               dbis |-> {}]
FreedNative == [FreeNative EXCEPT !.state = "freed"]
\* flags: the flags mdb_env_open was given; stale: dead reader slots in the lock table
FreeEnv == [state |-> "unused", loc |-> NoLoc, dbis |-> {}, flags |-> {}, stale |-> 0]
NoFiles == [exists |-> FALSE, image |-> EmptyDb]
DeadObj == [alive |-> FALSE, envptr |-> 0, txnptr |-> 0, committed |-> TRUE,
            type |-> "readonly"]

\* A call and what it returned; eng: the dbi_t passed it on to the engine.
Call(op, t, rc, h) ==
    [op |-> op, t |-> t, rc |-> rc, h |-> h, key |-> NoKey, val |-> NoVal, arg |-> <<>>,
     eng |-> FALSE]

EnvIsOpen(h) == h # 0 /\ henv[h].state = "open"
EnvIsLive(h) == h # 0 /\ henv[h].state \in {"created", "open"}

\* A native transaction the engine still holds (running, or reset).
Held(n) == n # 0 /\ ntxn[n].state \in {"live", "reset"}
Live(n) == n # 0 /\ ntxn[n].state = "live"

\* The engine's writer mutex of environment h is taken.
WriterHeld(h) == \E n \in NativeTxns : Held(n) /\ ~ntxn[n].rdonly /\ ntxn[n].env = h

UsedEnvs == {h \in EnvHandles : henv[h].state # "unused"}
UsedNative == {n \in NativeTxns : ntxn[n].state # "unused"}
Waiting == {t \in TxnObjs : pc[t] = "in_begin"}
NewEnvHandle == Cardinality(UsedEnvs) + 1
NewNative == Cardinality(UsedNative) + 1

\* The committed image of the store environment handle h has open.
Committed(h) == disk[henv[h].loc].image

\* ------------------------------------------------------------------ codec
\* detail::to_mdb_val and detail::from_mdb_val.  Memory is a map from an
\* address to the cells stored there; a cell is a byte, or a machine word
\* (a pointer or a size_t).  An object is its type, its cells and, for a
\* container that owns a buffer, the address data() returns:
\*   char, record      cells = the object representation (1 and 2 bytes)
\*   string_view, span cells = <<pointer, length>>, the object representation
\*   string, vector    cells = the elements it owns
NullPtr == 0           \* nullptr
InputAddr == 1         \* &input
DataAddr == 2          \* input.data(), the buffer an input owns or views
PageAddr == 3          \* where the engine keeps a stored item
OutAddr == 4           \* the buffer the destination owns
Addrs == {NullPtr, InputAddr, DataAddr, PageAddr, OutAddr}
Bytes == {0, 1}

ByteCell(b) == [w |-> 1, v |-> b]
WordCell(x) == [w |-> 8, v |-> x]
ByteCellSeqs == UNION {[1..n -> {ByteCell(b) : b \in Bytes}] : n \in 0..MaxLen}

RECURSIVE SizeOfCells(_)
SizeOfCells(cells) ==
    IF cells = <<>> THEN 0 ELSE Head(cells).w + SizeOfCells(Tail(cells))

\* The cells of the first n bytes of a region of memory.
RECURSIVE Take(_, _)
Take(cells, n) ==
    IF n <= 0 \/ cells = <<>> THEN <<>>
    ELSE <<Head(cells)>> \o Take(Tail(cells), n - Head(cells).w)

CodecTypes == {"char", "record", "string", "string_view", "vector", "span"}
ViewTypes == {"string_view", "span"}
OwnerTypes == {"string", "vector"}

\* std::string_view and std::span are trivially copyable in libstdc++, libc++
\* and the MSVC library; std::string and std::vector are not.
TriviallySerializable(T) == T \in {"char", "record", "string_view", "span"}
StringLike(T) == T \in {"string", "string_view"}
ByteContainerLike(T) == T \in {"vector", "span"}

get_serializable_kind(T) ==
    IF TriviallySerializable(T) THEN "trivial"
    ELSE IF StringLike(T) THEN "string"
    ELSE IF ByteContainerLike(T) THEN "bytes"
    ELSE "unknown"

\* sizeof(T) of the trivially copyable types, in bytes (LP64).
SizeOf(T) ==
    CASE T = "char" -> 1
      [] T = "record" -> 2
      [] T \in ViewTypes -> 16
      [] OTHER -> 0

NoObj == [type |-> "none", cells |-> <<>>, data |-> NullPtr]
Obj(T, cells, data) == [type |-> T, cells |-> cells, data |-> data]

\* input.data() and input.size()
Data(o) == IF o.type \in ViewTypes THEN o.cells[1].v ELSE o.data
Size(o) == IF o.type \in ViewTypes THEN o.cells[2].v ELSE Len(o.cells)

\* The elements an object stands for: those it holds, or those it views.
Content(o, mem) ==
    IF o.type \in ViewTypes THEN Take(mem[Data(o)], Size(o)) ELSE o.cells
\* operator== of the type.
Equal(a, b, mem) == a.type = b.type /\ Content(a, mem) = Content(b, mem)

ScalarObjs ==
    {Obj("char", <<ByteCell(b)>>, NullPtr) : b \in Bytes}
    \cup {Obj("record", <<ByteCell(a), ByteCell(b)>>, NullPtr) : a, b \in Bytes}
\* A string's data() is never null; an empty vector's may be.
OwnerObjs(addr) ==
    {Obj("string", c, addr) : c \in ByteCellSeqs}
    \cup {Obj("vector", c, addr) : c \in ByteCellSeqs}
    \cup {Obj("vector", <<>>, NullPtr)}
\* A view of a prefix of the buffer, or a default-constructed view.
ViewObjs(buf) ==
    {Obj(T, <<WordCell(DataAddr), WordCell(n)>>, NullPtr) :
         T \in ViewTypes, n \in 0..Len(buf)}
    \cup {Obj(T, <<WordCell(NullPtr), WordCell(0)>>, NullPtr) : T \in ViewTypes}

NoMem == [a \in Addrs |-> <<>>]
NoMdbVal == [mv_size |-> 0, mv_data |-> NullPtr]
NoIo == [op |-> "none", src |-> "none", rc |-> "MDB_SUCCESS", in |-> NoObj,
         val |-> NoMdbVal, mem |-> NoMem, out |-> NoObj, prev |-> NoObj]

to_mdb_val(input) ==
    LET kind == get_serializable_kind(input.type) IN
    IF kind = "trivial"
    THEN [rc |-> "MDB_SUCCESS",
          val |-> [mv_size |-> SizeOf(input.type), mv_data |-> InputAddr]]
    ELSE IF kind = "string"
    THEN [rc |-> "MDB_SUCCESS",
          val |-> [mv_size |-> Size(input), mv_data |-> Data(input)]]
    ELSE IF kind = "bytes"
    THEN [rc |-> "MDB_SUCCESS",
          val |-> [mv_size |-> Size(input), mv_data |-> Data(input)]]
    ELSE [rc |-> "EINVAL", val |-> NoMdbVal]

\* if (val.mv_size != sizeof(T)) return error_t(EPERM);
size_mismatch_never(val, T) == FALSE
size_mismatch(val, T) == val.mv_size # SizeOf(T)

\* out.assign(data, size): the destination holds these elements and no other.
assign_append(out, cells) == [out EXCEPT !.cells = out.cells \o cells]
assign(out, cells) == [out EXCEPT !.cells = cells]

from_mdb_val(val, out, mem) ==
    LET T == out.type
        kind == get_serializable_kind(T) IN
    IF kind = "trivial"
    THEN IF size_mismatch(val, T)
         THEN [rc |-> "EPERM", out |-> out]
         ELSE [rc |-> "MDB_SUCCESS",
               out |-> [out EXCEPT !.cells = Take(mem[val.mv_data], SizeOf(T))]]
    ELSE IF T = "string"
    THEN [rc |-> "MDB_SUCCESS", out |-> assign(out, Take(mem[val.mv_data], val.mv_size))]
    ELSE IF T = "string_view"
    THEN [rc |-> "MDB_SUCCESS",
          out |-> [out EXCEPT !.cells = <<WordCell(val.mv_data), WordCell(val.mv_size)>>]]
    ELSE IF T = "vector"
    THEN [rc |-> "MDB_SUCCESS", out |-> assign(out, Take(mem[val.mv_data], val.mv_size))]
    ELSE IF T = "span"
    THEN [rc |-> "MDB_SUCCESS",
          out |-> [out EXCEPT !.cells = <<WordCell(val.mv_data), WordCell(val.mv_size)>>]]
    ELSE [rc |-> "EINVAL", out |-> out]

\* Everything but the codec stands still.
CodecStep == UNCHANGED <<env, henv, disk, txn, pc, ntxn, dbi, last, ub, crashed, other, cur>>

\* to_mdb_val(input, out) on an input of any supported type.
call_to_mdb_val ==
    /\ \E buf \in ByteCellSeqs :
         \E input \in ScalarObjs \cup {o \in OwnerObjs(DataAddr) : o.cells = buf}
                      \cup ViewObjs(buf) :
            LET r == to_mdb_val(input) IN
            io' = [op |-> "to_mdb_val", src |-> "to_mdb_val", rc |-> r.rc,
                   in |-> input, val |-> r.val,
                   mem |-> [NoMem EXCEPT
                              ![InputAddr] = IF TriviallySerializable(input.type)
                                             THEN input.cells ELSE <<>>,
                              ![DataAddr] = IF input.type \in OwnerTypes \cup ViewTypes
                                            THEN buf ELSE <<>>],
                   out |-> NoObj, prev |-> NoObj]
    /\ CodecStep

\* mdb_get hands back an item of the store: a pointer into the map and a length.
call_mdb_get ==
    /\ \E item \in ByteCellSeqs :
         io' = [op |-> "mdb_get", src |-> "mdb_get", rc |-> "MDB_SUCCESS",
                in |-> NoObj, val |-> [mv_size |-> Len(item), mv_data |-> PageAddr],
                mem |-> [NoMem EXCEPT ![PageAddr] = item],
                out |-> NoObj, prev |-> NoObj]
    /\ CodecStep

\* from_mdb_val(val, out) into a destination of any type, whatever it held.
call_from_mdb_val ==
    /\ io.src # "none"
    /\ \E prev \in ScalarObjs \cup OwnerObjs(OutAddr) \cup ViewObjs(io.mem[DataAddr]) :
         LET r == from_mdb_val(io.val, prev, io.mem) IN
         io' = [io EXCEPT !.op = "from_mdb_val", !.rc = r.rc, !.out = r.out,
                          !.prev = prev]
    /\ CodecStep

\* The fields of an env_t as its member initializers leave them.
DefaultEnv ==
    [envptr |-> 0, isopen |-> FALSE, maxdbs |-> DEFAULT_MAXDBS,
     maxreaders |-> DEFAULT_MAXREADERS, mapsize |-> DEFAULT_MMAPSIZE,
     mode |-> DEFAULT_MODE, flags |-> {}, path |-> "", lasterror |-> "MDB_SUCCESS"]
\* The second env_t before the program constructs it.
NoEnv == [alive |-> FALSE, fields |-> DefaultEnv]

\* A cursor_t that is not open.  run: "fwd" since a first() with only next()
\* after it, "back" since a last() with only prior() after it, "fwd_end" and
\* "back_end" once such a run met not-found; trail: the keys the run returned.
NoCursor == [opened |-> FALSE, store |-> {}, pos |-> 0, run |-> "none", trail |-> <<>>]

Init ==
    /\ env = [DefaultEnv EXCEPT !.envptr = 1]
    /\ henv = [h \in EnvHandles |->
                 IF h = 1 THEN [FreeEnv EXCEPT !.state = "created"] ELSE FreeEnv]
    /\ disk = [l \in Locations |-> NoFiles]
    /\ txn = [t \in TxnObjs |-> DeadObj]
    /\ pc = [t \in TxnObjs |-> "idle"]
    /\ ntxn = [n \in NativeTxns |-> FreeNative]
    /\ dbi = [dbi_ |-> 0, opened_ |-> FALSE]
    /\ last = Call("construct", 0, "MDB_SUCCESS", 0)
    /\ ub = FALSE
    /\ crashed = FALSE
    /\ io = NoIo
    /\ other = NoEnv
    /\ cur = NoCursor

\* ------------------------------------------------------------------ env_t
\* mdb_env_close(h): the handle is released, and with it the lock table and
\* every transaction that was still open in it.
NativeAfterEnvClose(h) ==
    [n \in NativeTxns |->
        IF Held(n) /\ ntxn[n].env = h THEN FreedNative ELSE ntxn[n]]

\* cleanup() that keeps the pointer it has closed.
env_cleanup_keep(e) == [e EXCEPT !.isopen = FALSE]

\* env_t::cleanup() on the fields e: the fields afterwards.
env_cleanup(e) ==
    IF e.envptr # 0 THEN [e EXCEPT !.isopen = FALSE, !.envptr = 0] ELSE e

\* cleanup() that does not call mdb_env_close.
CleanupHandles_leak(e, hs) == hs

\* The engine after env_t::cleanup() on the fields e, starting from handles hs.
CleanupHandles(e, hs) ==
    IF e.envptr # 0
    THEN [hs EXCEPT ![e.envptr] = [FreeEnv EXCEPT !.state = "closed"]]
    ELSE hs

CleanupNative(e) == IF e.envptr # 0 THEN NativeAfterEnvClose(e.envptr) ELSE ntxn

\* env_t::exist() on the fields e.
exist(e) == disk[<<e.path, "MDB_NOSUBDIR" \in e.flags>>].exists

\* remove() without its look at isopen_.
removes_open(e) == exist(e)

\* env_t::remove() on the fields e: whether it deletes the files.
removes(e) == ~e.isopen /\ exist(e)

\* env_t::remove() on the fields e: the disk afterwards.
remove(e) ==
    IF removes(e)
    THEN [disk EXCEPT ![<<e.path, "MDB_NOSUBDIR" \in e.flags>>] = NoFiles]
    ELSE disk

\* env_t::close(): cleanup(), then remove() under MDB_EPHEMERAL.
close ==
    /\ ~crashed
    /\ LET e == env_cleanup(env) IN
       /\ env' = e
       /\ henv' = CleanupHandles(env, henv)
       /\ ntxn' = CleanupNative(env)
       /\ disk' = IF "MDB_EPHEMERAL" \in e.flags THEN remove(e) ELSE disk
    /\ last' = [Call("close", 0, "MDB_SUCCESS", 0)
                   EXCEPT !.arg = <<env.isopen>>, !.eng = env.envptr # 0]
    /\ UNCHANGED <<txn, pc, dbi, ub, crashed, io, other, cur>>

\* The default path open() resolves when none was set.
DefaultPath(e) == IF "MDB_NOSUBDIR" \in e.flags THEN "cwd/lmdb.mdb" ELSE "cwd"

\* env_t::create() on the fields e (cleanup() has nothing to close there):
\* mdb_env_create either hands out handle h or fails and leaves nullptr.
create(e, granted, h) == [e EXCEPT !.envptr = IF granted THEN h ELSE 0]

CreateHandles(hs, granted, h) ==
    IF granted THEN [hs EXCEPT ![h] = [FreeEnv EXCEPT !.state = "created"]] ELSE hs

\* env_t::init() on the fields e: the status it returns, where engineOpens is
\* the outcome of mdb_env_open.
init(e, engineOpens) ==
    IF e.isopen THEN "MDB_INVALID"
    ELSE IF engineOpens THEN "MDB_SUCCESS" ELSE "ENOENT"

\* init() passing the flags on as they are.
engine_flags_all(flags) == flags

\* env_t::init(): the flags mdb_env_open is given, (flags & ~MDB_EPHEMERAL).
engine_flags(flags) == flags \ {"MDB_EPHEMERAL"}

\* env_t::open().  pathok: current_path() did not throw; c1, c2: the outcomes of
\* mdb_env_create in the first create() and in the one after a failed init();
\* engineOpens: the outcome of mdb_env_open.  The engine hands out no native
\* environment beyond number limit.
open_within(limit) ==
    /\ ~crashed
    /\ \E pathok, c1, c2, engineOpens \in BOOLEAN :
       LET e0 == [env EXCEPT !.lasterror = "MDB_SUCCESS"]
           e1 == IF e0.path = "" THEN [e0 EXCEPT !.path = DefaultPath(e0)] ELSE e0
           need1 == e1.envptr = 0
           h1 == NewEnvHandle
           e2 == IF need1 THEN create(e1, c1, h1) ELSE e1
           hs2 == IF need1 THEN CreateHandles(henv, c1, h1) ELSE henv
           loc == <<e2.path, "MDB_NOSUBDIR" \in e2.flags>>
           rc == init(e2, engineOpens /\ Openable(loc))
           h2 == IF need1 THEN h1 + 1 ELSE h1
           e3 == env_cleanup(e2)
       IN
       IF env.path = "" /\ ~pathok
       THEN \* current_path() threw filesystem_error
            /\ env' = [e0 EXCEPT !.lasterror = "MDB_INVALID"]
            /\ last' = Call("open", 0, "MDB_INVALID", 0)
            /\ UNCHANGED <<henv, ntxn, disk>>
       ELSE IF need1 /\ ~c1
       THEN \* create() failed: open() returns its status
            /\ env' = [e1 EXCEPT !.lasterror = "ENOMEM"]
            /\ last' = Call("open", 0, "ENOMEM", 0)
            /\ UNCHANGED <<henv, ntxn, disk>>
       ELSE IF rc = "MDB_SUCCESS"
       THEN /\ (need1 => h1 <= limit)
            /\ env' = [e2 EXCEPT !.isopen = TRUE, !.lasterror = rc]
            /\ henv' = [hs2 EXCEPT ![e2.envptr] = [FreeEnv EXCEPT !.state = "open", !.loc = loc,
                                                     !.flags = engine_flags(e2.flags)]]
            /\ disk' = [disk EXCEPT ![loc].exists = TRUE]
            /\ last' = Call("open", 0, rc, 0)
            /\ UNCHANGED ntxn
       ELSE \* init() failed: cleanup(), then create()
            /\ (need1 => h1 <= limit)
            /\ (c2 => h2 <= limit)
            /\ env' = [create(e3, c2, h2) EXCEPT !.lasterror = rc]
            /\ henv' = CreateHandles(CleanupHandles(e2, hs2), c2, h2)
            /\ ntxn' = CleanupNative(e2)
            /\ last' = Call("open", 0, rc, 0)
            /\ UNCHANGED disk
    /\ UNCHANGED <<txn, pc, dbi, ub, crashed, io, other, cur>>

\* env_t::open() in a run where the env_t is opened and is not reopened.
open == open_within(MaxEnvHandles)

\* A configuration mutator's step: the fields become e, the call returns rc.
Configure(op, e, rc) ==
    /\ ~crashed
    /\ env' = e
    /\ last' = Call(op, 0, rc, 0)
    /\ UNCHANGED <<henv, disk, txn, pc, ntxn, dbi, ub, crashed, io, other, cur>>

\* env_t::maxdbs(dbs)
maxdbs ==
    \E dbs \in DbsVals :
       IF env.isopen
       THEN Configure("maxdbs", [env EXCEPT !.lasterror = "MDB_INVALID"], "MDB_INVALID")
       ELSE Configure("maxdbs", [env EXCEPT !.maxdbs = dbs, !.lasterror = "MDB_SUCCESS"],
                      "MDB_SUCCESS")

\* env_t::maxreaders(readers)
maxreaders ==
    \E readers \in ReadersVals :
       IF env.isopen
       THEN Configure("maxreaders", env, "MDB_INVALID")
       ELSE Configure("maxreaders",
                      [env EXCEPT !.maxreaders = readers, !.lasterror = "MDB_SUCCESS"],
                      "MDB_SUCCESS")

\* env_t::mmapsize(size)
mmapsize ==
    \E size \in MapVals :
       IF env.isopen
       THEN Configure("mmapsize", [env EXCEPT !.lasterror = "MDB_INVALID"], "MDB_INVALID")
       ELSE Configure("mmapsize", [env EXCEPT !.mapsize = size, !.lasterror = "MDB_SUCCESS"],
                      "MDB_SUCCESS")

\* env_t::mode(m)
mode ==
    \E m \in ModeVals :
       IF env.isopen
       THEN Configure("mode", [env EXCEPT !.lasterror = "MDB_INVALID"], "MDB_INVALID")
       ELSE Configure("mode", [env EXCEPT !.mode = m, !.lasterror = "MDB_SUCCESS"],
                      "MDB_SUCCESS")

\* path(p) without its "already open" check.
path_unguarded == \E p \in PathVals : Configure("path", [env EXCEPT !.path = p], "MDB_SUCCESS")

\* env_t::path(p)
path ==
    \E p \in PathVals :
       IF env.isopen
       THEN Configure("path", env, "MDB_INVALID")
       ELSE Configure("path", [env EXCEPT !.path = p], "MDB_SUCCESS")

\* env_t::setflags(flags...) with the flags one of flagsets
setflags_of(flagsets) ==
    \E f \in flagsets :
       IF env.isopen
       THEN Configure("setflags", env, "MDB_INVALID")
       ELSE Configure("setflags", [env EXCEPT !.flags = f], "MDB_SUCCESS")

\* env_t::setflags(flags...)
setflags == setflags_of(SUBSET EnvFlagNames)

ConfigOps == {"maxdbs", "maxreaders", "mmapsize", "mode", "path", "setflags"}

\* The configured options of the env_t fields e.
Options(e) == <<e.maxdbs, e.maxreaders, e.mapsize, e.mode, e.path, e.flags>>

\* The environment object on its own: configuration, open and close.
NextCfg ==
    \/ open
    \/ close
    \/ maxdbs
    \/ maxreaders
    \/ mmapsize
    \/ mode
    \/ path
    \/ setflags

SpecCfg == Init /\ [][NextCfg]_vars

\* env_t::remove() called by the program: true when it deleted the files.
env_remove ==
    /\ ~crashed
    /\ disk' = remove(env)
    /\ last' = Call("remove", 0, IF removes(env) THEN "true" ELSE "false", 0)
    /\ UNCHANGED <<env, henv, txn, pc, ntxn, dbi, ub, crashed, io, other, cur>>

\* mdb_reader_check that reports no dead reader slot.
reader_check_none(h) == 0

\* mdb_reader_check(h, &dead): the dead reader slots it finds, and clears.
reader_check(h) == henv[h].stale

\* What check() returns when it fails.
CHECK_FAILED == -1

\* env_t::check(): -1 when the environment is not open, else what
\* mdb_reader_check counted: the dead reader slots it cleared.  The count is
\* reported in val.
check ==
    /\ ~crashed
    /\ IF ~env.isopen
       THEN /\ last' = [Call("check", 0, "int", 0) EXCEPT !.val = CHECK_FAILED]
            /\ UNCHANGED henv
       ELSE /\ last' = [Call("check", 0, "int", 0)
                          EXCEPT !.val = reader_check(env.envptr), !.eng = TRUE]
            /\ henv' = [henv EXCEPT ![env.envptr].stale = 0]
    /\ UNCHANGED <<env, disk, txn, pc, ntxn, dbi, ub, crashed, io, other, cur>>

\* env_t::flush(force): EINVAL when the environment is not open, else mdb_env_sync.
flush ==
    /\ ~crashed
    /\ \E force \in BOOLEAN :
         IF ~env.isopen
         THEN last' = [Call("flush", 0, "EINVAL", 0) EXCEPT !.arg = <<force>>]
         ELSE last' = [Call("flush", 0, "MDB_SUCCESS", 0) EXCEPT !.arg = <<force>>,
                                                                 !.eng = TRUE]
    /\ UNCHANGED <<env, henv, disk, txn, pc, ntxn, dbi, ub, crashed, io, other, cur>>

\* Another process that reads the open store exits without closing it and
\* leaves its reader slot in the lock table.
reader_dies ==
    /\ ~crashed
    /\ \E h \in EnvHandles :
         /\ henv[h].state = "open" /\ henv[h].stale < MaxStale
         /\ henv' = [henv EXCEPT ![h].stale = @ + 1]
    /\ last' = Call("reader_dies", 0, "MDB_SUCCESS", 0)
    /\ UNCHANGED <<env, disk, txn, pc, ntxn, dbi, ub, crashed, io, other, cur>>

\* A move that leaves the path in the object moved from.
MovedFrom_keep(e) == [e EXCEPT !.envptr = 0, !.isopen = FALSE, !.lasterror = "MDB_SUCCESS"]

\* The fields of an env_t that was moved from: the handle and the open state are
\* reset by the move, the path was moved out (the library leaves it empty), the
\* integral fields keep their values.
MovedFrom(e) ==
    [e EXCEPT !.envptr = 0, !.isopen = FALSE, !.lasterror = "MDB_SUCCESS", !.path = ""]

\* env_t other;  the second object is constructed: create().
other_construct(limit) ==
    /\ ~crashed
    /\ ~other.alive
    /\ \E granted \in BOOLEAN :
         LET h == NewEnvHandle IN
         /\ granted => h <= limit
         /\ other' = [alive |-> TRUE,
                      fields |-> [create(DefaultEnv, granted, h)
                                    EXCEPT !.lasterror = IF granted THEN "MDB_SUCCESS"
                                                         ELSE "ENOMEM"]]
         /\ henv' = CreateHandles(henv, granted, h)
    /\ last' = Call("other_construct", 0, "MDB_SUCCESS", 0)
    /\ UNCHANGED <<env, disk, txn, pc, ntxn, dbi, ub, crashed, io, cur>>

\* env_t other{ std::move(env) };
env_move_construct ==
    /\ ~crashed
    /\ ~other.alive
    /\ other' = [alive |-> TRUE, fields |-> env]
    /\ env' = MovedFrom(env)
    /\ last' = Call("move_construct", 0, "MDB_SUCCESS", 0)
    /\ UNCHANGED <<henv, disk, txn, pc, ntxn, dbi, ub, crashed, io, cur>>

\* other = std::move(env);  cleanup() of the destination, then the transfer.
env_move_assign ==
    /\ ~crashed
    /\ other.alive
    /\ henv' = CleanupHandles(other.fields, henv)
    /\ ntxn' = CleanupNative(other.fields)
    /\ other' = [alive |-> TRUE, fields |-> env]
    /\ env' = MovedFrom(env)
    /\ last' = Call("move_assign", 0, "MDB_SUCCESS", 0)
    /\ UNCHANGED <<disk, txn, pc, dbi, ub, crashed, io, cur>>

\* env = std::move(other);  the same the other way round.
env_move_back ==
    /\ ~crashed
    /\ other.alive
    /\ henv' = CleanupHandles(env, henv)
    /\ ntxn' = CleanupNative(env)
    /\ env' = other.fields
    /\ other' = [other EXCEPT !.fields = MovedFrom(@)]
    /\ last' = Call("move_back", 0, "MDB_SUCCESS", 0)
    /\ UNCHANGED <<disk, txn, pc, dbi, ub, crashed, io, cur>>

\* ~env_t() of the second object: close().
other_destroy ==
    /\ ~crashed
    /\ other.alive
    /\ LET e == env_cleanup(other.fields) IN
       /\ henv' = CleanupHandles(other.fields, henv)
       /\ ntxn' = CleanupNative(other.fields)
       /\ disk' = IF "MDB_EPHEMERAL" \in e.flags THEN remove(e) ELSE disk
    /\ other' = NoEnv
    /\ last' = Call("other_destroy", 0, "MDB_SUCCESS", 0)
    /\ UNCHANGED <<env, txn, pc, dbi, ub, crashed, io, cur>>

\* The environment object where it is opened again after a close() or a failed
\* open(): open, close, reconfiguration, and the calls that look after the store.
NextEnv ==
    \/ open_within(MaxEnvHandles + MaxEnvReopens)
    \/ close
    \/ path
    \/ setflags
    \/ maxdbs
    \/ env_remove
    \/ check
    \/ flush
    \/ reader_dies

SpecEnv == Init /\ [][NextEnv]_vars

\* The environment object where a failed open() is the only thing that closes
\* a native handle: open and reconfiguration.
NextRetry ==
    \/ open_within(MaxEnvHandles + MaxEnvReopens)
    \/ maxdbs
    \/ path
    \/ setflags

SpecRetry == Init /\ [][NextRetry]_vars

\* Two env_t objects and the moves between them.
NextEnvMove ==
    \/ open_within(MaxEnvHandles + MaxEnvReopens)
    \/ close
    \/ setflags_of(SUBSET {"MDB_EPHEMERAL"})
    \/ other_construct(MaxEnvHandles + MaxEnvReopens)
    \/ env_move_construct
    \/ env_move_assign
    \/ env_move_back
    \/ other_destroy

SpecEnvMove == Init /\ [][NextEnvMove]_vars

\* ------------------------------------------------------------------ txn_t
\* A step of txn_t object t that touches nothing but the object and the engine's
\* transactions.
TxnStep(t, o, nt, op, rc) ==
    /\ txn' = [txn EXCEPT ![t] = o]
    /\ ntxn' = nt
    /\ last' = Call(op, t, rc, txn[t].txnptr)

\* An engine call on a handle the engine does not hold: anything may happen;
\* the process dies or the call comes back.
Undefined(dies) == ub' = TRUE /\ crashed' = dies

\* mdb_txn_commit, mdb_txn_abort: the engine lets go of native transaction n.
EngineEnd(n) == [ntxn EXCEPT ![n] = FreedNative]

\* mdb_txn_begin granted: native transaction n starts in environment h with a
\* snapshot of the committed image.
EngineBegin(n, h, rdonly) ==
    [ntxn EXCEPT ![n] = [state |-> "live", rdonly |-> rdonly, env |-> h,
                         view |-> Committed(h), dbis |-> henv[h].dbis]]

\* txn_t::txn_t(env, type): the object keeps env.handle().
construct(t) ==
    /\ ~crashed
    /\ ~txn[t].alive
    /\ \E type \in TxnTypes :
         txn' = [txn EXCEPT ![t] = [alive |-> TRUE, envptr |-> env.envptr, txnptr |-> 0,
                                    committed |-> TRUE, type |-> type]]
    /\ last' = Call("construct", t, "MDB_SUCCESS", 0)
    /\ UNCHANGED <<env, henv, disk, pc, ntxn, dbi, ub, crashed, io, other, cur>>

\* ~txn_t(): the class declares no destructor, so the fields just go away.
destroy(t) ==
    /\ ~crashed
    /\ txn[t].alive /\ pc[t] = "idle"
    /\ TxnStep(t, DeadObj, ntxn, "destroy", "MDB_SUCCESS")
    /\ UNCHANGED <<env, henv, disk, pc, dbi, ub, crashed, io, other, cur>>

\* begin() without its "already active" check.
begin_check_unguarded(o) == IF o.envptr = 0 THEN "MDB_INVALID" ELSE "MDB_SUCCESS"

\* txn_t::begin(): the checks made before the engine is called.
begin_check(o) ==
    IF o.envptr = 0 THEN "MDB_INVALID"
    ELSE IF o.txnptr # 0 THEN "MDB_BAD_TXN"
    ELSE "MDB_SUCCESS"

\* begin() asking for a read-only transaction whatever the type.
begin_flags_rdonly(o) == {"MDB_RDONLY"}

\* txn_t::begin(): the flags handed to mdb_txn_begin.
begin_flags(o) == IF o.type = "readonly" THEN {"MDB_RDONLY"} ELSE {}

\* begin() that stores the handle and leaves committed_ as it was.
begin_done_flagless(o, rc, n) ==
    IF rc = "MDB_SUCCESS" THEN [o EXCEPT !.txnptr = n] ELSE o

\* txn_t::begin(): the fields after mdb_txn_begin returned rc and handle n.
begin_done(o, rc, n) ==
    IF rc = "MDB_SUCCESS" THEN [o EXCEPT !.txnptr = n, !.committed = FALSE] ELSE o

\* txn_t::begin(), up to the point where mdb_txn_begin either returns or, for a
\* write transaction, waits for the writer mutex.
begin(t) ==
    /\ ~crashed
    /\ txn[t].alive /\ pc[t] = "idle"
    /\ LET o == txn[t]
           h == o.envptr
           n == NewNative
       IN
       IF begin_check(o) # "MDB_SUCCESS"
       THEN /\ TxnStep(t, o, ntxn, "begin", begin_check(o))
            /\ UNCHANGED <<pc, ub, crashed>>
       ELSE IF ~EnvIsOpen(h)
       THEN \* the handle is not an open environment
            /\ \E dies \in BOOLEAN : Undefined(dies)
            /\ TxnStep(t, begin_done(o, "EINVAL", 0), ntxn, "begin", "EINVAL")
            /\ UNCHANGED pc
       ELSE IF "MDB_RDONLY" \in begin_flags(o)
       THEN /\ Cardinality(UsedNative) + Cardinality(Waiting) < MaxNativeTxns
            /\ \E granted \in BOOLEAN :
                 IF granted
                 THEN TxnStep(t, begin_done(o, "MDB_SUCCESS", n),
                              EngineBegin(n, h, TRUE), "begin", "MDB_SUCCESS")
                 ELSE TxnStep(t, begin_done(o, "ENOMEM", 0), ntxn, "begin", "ENOMEM")
            /\ UNCHANGED <<pc, ub, crashed>>
       ELSE /\ Cardinality(UsedNative) + Cardinality(Waiting) < MaxNativeTxns
            /\ pc' = [pc EXCEPT ![t] = "in_begin"]
            /\ TxnStep(t, o, ntxn, "begin_wait", "MDB_SUCCESS")
            /\ UNCHANGED <<ub, crashed>>
    /\ UNCHANGED <<env, henv, disk, dbi, io, other, cur>>

\* mdb_txn_begin of a write transaction returns: the writer mutex is free (or
\* the environment went away under the waiting thread).
begin_acquire(t) ==
    /\ ~crashed
    /\ pc[t] = "in_begin"
    /\ LET o == txn[t]
           h == o.envptr
           n == NewNative
       IN
       IF ~EnvIsOpen(h)
       THEN /\ \E dies \in BOOLEAN : Undefined(dies)
            /\ TxnStep(t, begin_done(o, "EINVAL", 0), ntxn, "begin", "EINVAL")
       ELSE /\ ~WriterHeld(h)
            /\ \E granted \in BOOLEAN :
                 IF granted
                 THEN TxnStep(t, begin_done(o, "MDB_SUCCESS", n),
                              EngineBegin(n, h, FALSE), "begin", "MDB_SUCCESS")
                 ELSE TxnStep(t, begin_done(o, "ENOMEM", 0), ntxn, "begin", "ENOMEM")
            /\ UNCHANGED <<ub, crashed>>
    /\ pc' = [pc EXCEPT ![t] = "idle"]
    /\ UNCHANGED <<env, henv, disk, dbi, io, other, cur>>

\* txn_t::commit(): the check made before the engine is called.
commit_check(o) == IF o.txnptr = 0 THEN "MDB_BAD_TXN" ELSE "MDB_SUCCESS"

\* txn_t::commit(): the fields after mdb_txn_commit returned rc.
commit_done(o, rc) ==
    IF rc = "MDB_SUCCESS" THEN [o EXCEPT !.committed = TRUE, !.txnptr = 0] ELSE o

\* commit() ending the transaction without writing it.
CommitImage_discard(n, rc) == disk

\* The disk after mdb_txn_commit(n) returned rc: a write transaction that
\* commits replaces the committed image by its own.
CommitImage(n, rc) ==
    IF rc = "MDB_SUCCESS" /\ ~ntxn[n].rdonly
    THEN [disk EXCEPT ![henv[ntxn[n].env].loc].image = ntxn[n].view]
    ELSE disk

\* The environment handles after mdb_txn_commit(n) returned rc: the named
\* database handles opened in a transaction that commits stay open.
CommitHandles(n, rc) ==
    IF rc = "MDB_SUCCESS"
    THEN [henv EXCEPT ![ntxn[n].env].dbis = @ \cup ntxn[n].dbis]
    ELSE henv

\* txn_t::commit()
commit(t) ==
    /\ ~crashed
    /\ txn[t].alive /\ pc[t] = "idle"
    /\ LET o == txn[t]
           n == o.txnptr
       IN
       IF commit_check(o) # "MDB_SUCCESS"
       THEN /\ TxnStep(t, o, ntxn, "commit", commit_check(o))
            /\ UNCHANGED <<disk, henv, ub, crashed>>
       ELSE IF ~Held(n)
       THEN \* the engine released n before: the call is undefined
            /\ \E dies \in BOOLEAN : Undefined(dies)
            /\ \E rc \in {"MDB_SUCCESS", "MDB_BAD_TXN"} :
                 TxnStep(t, commit_done(o, rc), ntxn, "commit", rc)
            /\ UNCHANGED <<disk, henv>>
       ELSE \* a commit that writes can fail; the engine ends n either way
            /\ \E rc \in (IF ntxn[n].rdonly THEN {"MDB_SUCCESS"} ELSE {"MDB_SUCCESS", "EIO"}) :
                 /\ TxnStep(t, commit_done(o, rc), EngineEnd(n), "commit", rc)
                 /\ disk' = CommitImage(n, rc)
                 /\ henv' = CommitHandles(n, rc)
            /\ UNCHANGED <<ub, crashed>>
    /\ UNCHANGED <<env, pc, dbi, io, other, cur>>

\* abort() without its null-handle check.
abort_check_unguarded(o) == "MDB_SUCCESS"

\* txn_t::abort(): the check made before the engine is called.
abort_check(o) == IF o.txnptr = 0 THEN "MDB_BAD_TXN" ELSE "MDB_SUCCESS"

\* txn_t::abort(): the fields after mdb_txn_abort.
abort_done(o) == [o EXCEPT !.txnptr = 0, !.committed = TRUE]

\* txn_t::abort()
abort(t) ==
    /\ ~crashed
    /\ txn[t].alive /\ pc[t] = "idle"
    /\ LET o == txn[t]
           n == o.txnptr
       IN
       IF abort_check(o) # "MDB_SUCCESS"
       THEN /\ TxnStep(t, o, ntxn, "abort", abort_check(o))
            /\ UNCHANGED <<ub, crashed>>
       ELSE IF ~Held(n)
       THEN /\ \E dies \in BOOLEAN : Undefined(dies)
            /\ TxnStep(t, abort_done(o), ntxn, "abort", "MDB_SUCCESS")
       ELSE /\ TxnStep(t, abort_done(o), EngineEnd(n), "abort", "MDB_SUCCESS")
            /\ UNCHANGED <<ub, crashed>>
    /\ UNCHANGED <<env, henv, disk, pc, dbi, io, other, cur>>

\* reset() and renew() without their transaction-type check.
reset_check_untyped(o) == IF o.txnptr = 0 THEN "MDB_INVALID" ELSE "MDB_SUCCESS"

\* txn_t::reset() and txn_t::renew(): the checks made before the engine is called.
reset_check(o) ==
    IF o.txnptr = 0 THEN "MDB_INVALID"
    ELSE IF o.type # "readonly" THEN "MDB_BAD_TXN"
    ELSE "MDB_SUCCESS"

\* txn_t::reset()
reset(t) ==
    /\ ~crashed
    /\ txn[t].alive /\ pc[t] = "idle"
    /\ LET o == txn[t]
           n == o.txnptr
       IN
       IF reset_check(o) # "MDB_SUCCESS"
       THEN /\ TxnStep(t, o, ntxn, "reset", reset_check(o))
            /\ UNCHANGED <<ub, crashed>>
       ELSE IF ~Held(n)
       THEN /\ \E dies \in BOOLEAN : Undefined(dies)
            /\ TxnStep(t, [o EXCEPT !.committed = FALSE], ntxn, "reset", "MDB_SUCCESS")
       ELSE \* mdb_txn_reset: a read-only transaction gives up its snapshot
            /\ TxnStep(t, [o EXCEPT !.committed = FALSE],
                       IF ntxn[n].rdonly
                       THEN [ntxn EXCEPT ![n].state = "reset", ![n].view = EmptyDb,
                                         ![n].dbis = {}]
                       ELSE ntxn,
                       "reset", "MDB_SUCCESS")
            /\ UNCHANGED <<ub, crashed>>
    /\ UNCHANGED <<env, henv, disk, pc, dbi, io, other, cur>>

\* txn_t::renew(): the status of mdb_txn_renew is dropped.
renew(t) ==
    /\ ~crashed
    /\ txn[t].alive /\ pc[t] = "idle"
    /\ LET o == txn[t]
           n == o.txnptr
       IN
       IF reset_check(o) # "MDB_SUCCESS"
       THEN /\ TxnStep(t, o, ntxn, "renew", reset_check(o))
            /\ UNCHANGED <<ub, crashed>>
       ELSE IF ~Held(n)
       THEN /\ \E dies \in BOOLEAN : Undefined(dies)
            /\ TxnStep(t, [o EXCEPT !.committed = FALSE], ntxn, "renew", "MDB_SUCCESS")
       ELSE \* mdb_txn_renew: a reset read-only transaction takes a new snapshot;
            \* on any other transaction the engine answers EINVAL and changes nothing
            /\ TxnStep(t, [o EXCEPT !.committed = FALSE],
                       IF ntxn[n].rdonly /\ ntxn[n].state = "reset"
                       THEN [ntxn EXCEPT ![n].state = "live",
                                         ![n].view = Committed(ntxn[n].env),
                                         ![n].dbis = henv[ntxn[n].env].dbis]
                       ELSE ntxn,
                       "renew", "MDB_SUCCESS")
            /\ UNCHANGED <<ub, crashed>>
    /\ UNCHANGED <<env, henv, disk, pc, dbi, io, other, cur>>

\* txn_t::cleanup() calls mdb_txn_abort.
cleanup_aborts(o) == o.txnptr # 0 /\ ~o.committed

\* txn_t::cleanup(): the fields afterwards.
txn_cleanup(o) == [o EXCEPT !.txnptr = 0, !.committed = TRUE]

\* A move that leaves the native transaction with the source as well.
txn_moved_from_keep(o) == [o EXCEPT !.envptr = 0, !.committed = TRUE]

\* The txn_t moved from: what the move constructor and the move assignment
\* leave in other.
txn_moved_from(o) == [o EXCEPT !.envptr = 0, !.txnptr = 0, !.committed = TRUE]

\* The txn_t moved to: the fields taken from other.
txn_moved_to(o) ==
    [alive |-> TRUE, envptr |-> o.envptr, txnptr |-> o.txnptr,
     committed |-> o.committed, type |-> o.type]

\* txn_t d(std::move(s)): last.t is the destination, last.arg the source,
\* last.h the handle that moved.
txn_move_construct(s, d) ==
    /\ ~crashed
    /\ s # d
    /\ txn[s].alive /\ pc[s] = "idle"
    /\ ~txn[d].alive
    /\ txn' = [txn EXCEPT ![d] = txn_moved_to(txn[s]), ![s] = txn_moved_from(txn[s])]
    /\ last' = [Call("txn_move_construct", d, "MDB_SUCCESS", txn[s].txnptr)
                   EXCEPT !.arg = <<s>>]
    /\ UNCHANGED <<env, henv, disk, pc, ntxn, dbi, ub, crashed, io, other, cur>>

\* d = std::move(s), s and d distinct objects: cleanup() of d, then the
\* transfer.  cleanup() aborts what d holds uncommitted; on a handle the engine
\* released before, that call is undefined.
txn_move_assign(s, d) ==
    /\ ~crashed
    /\ s # d
    /\ txn[s].alive /\ pc[s] = "idle"
    /\ txn[d].alive /\ pc[d] = "idle"
    /\ LET n == txn[d].txnptr
           c == txn_cleanup(txn[d])
       IN
       /\ IF ~cleanup_aborts(txn[d])
          THEN UNCHANGED <<ntxn, ub, crashed>>
          ELSE IF ~Held(n)
          THEN /\ \E dies \in BOOLEAN : Undefined(dies)
               /\ UNCHANGED ntxn
          ELSE /\ ntxn' = EngineEnd(n)
               /\ UNCHANGED <<ub, crashed>>
       /\ txn' = [txn EXCEPT ![d] = [txn_moved_to(txn[s]) EXCEPT !.alive = c.alive],
                             ![s] = txn_moved_from(txn[s])]
    /\ last' = [Call("txn_move_assign", d, "MDB_SUCCESS", txn[s].txnptr)
                   EXCEPT !.arg = <<s>>]
    /\ UNCHANGED <<env, henv, disk, pc, dbi, io, other, cur>>

\* ------------------------------------------------------------------ dbi_t
\* A step of the dbi_t object made with txn_t object t.
DbiStep(t, eng, d, nt, op, rc, val) ==
    /\ dbi' = d
    /\ ntxn' = nt
    /\ last' = [Call(op, t, rc, txn[t].txnptr) EXCEPT !.val = val, !.eng = eng]

\* A data call made through the dbi_t with txn_t object t and key k: the dbi_t
\* itself stays as it is.
DataStep(t, eng, nt, op, rc, k, val) ==
    /\ dbi' = dbi
    /\ ntxn' = nt
    /\ last' = [Call(op, t, rc, txn[t].txnptr) EXCEPT !.key = k, !.val = val, !.eng = eng]

\* dbi_t::open(txn, name, flags...) made with txn_t object t.
OpenStep(t, eng, d, nt, rc, name, flags) ==
    /\ dbi' = d
    /\ ntxn' = nt
    /\ last' = [Call("dbi_open", t, rc, txn[t].txnptr)
                   EXCEPT !.arg = <<name, flags>>, !.eng = eng]

\* The status the engine gives a data call on native transaction n it holds:
\* a reset transaction cannot be used, a read-only one cannot write.
EngineAccess(n, writes) ==
    IF ntxn[n].state # "live" THEN "MDB_BAD_TXN"
    ELSE IF writes /\ ntxn[n].rdonly THEN "EACCES"
    ELSE "MDB_SUCCESS"

\* Database handle d is usable in native transaction n.
DbValid(n, d) == ntxn[n].state = "live" /\ (d = MAIN_DBI \/ d \in ntxn[n].dbis)

\* The status the engine gives a call on database handle d in transaction n
\* before it looks at the data.
EngineDb(n, d, writes) == IF ~DbValid(n, d) THEN "EINVAL" ELSE EngineAccess(n, writes)

\* The database handle d names, as native transaction n sees it.
DbOf(n, d) == ntxn[n].view[NameOf(d)]

\* The engine's transactions after native transaction n changed database d to db.
WithDb(n, d, db) == [ntxn EXCEPT ![n].view[NameOf(d)] = db]

\* The first of the values s in the engine's order.
First(s) == CHOOSE x \in s : \A y \in s : x <= y

\* mdb_dbi_open(n, name, flags) on a transaction the engine holds: the status,
\* the handle, and the engine's transactions afterwards.
EngineDbiOpen(n, name, flags) ==
    LET v == ntxn[n].view
        fail(rc) == [rc |-> rc, d |-> 0, nt |-> ntxn]
    IN
    IF EngineAccess(n, FALSE) # "MDB_SUCCESS" THEN fail(EngineAccess(n, FALSE))
    ELSE IF name = ""
    THEN [rc |-> "MDB_SUCCESS", d |-> MAIN_DBI,
          nt |-> IF "MDB_DUPSORT" \in flags
                 THEN [ntxn EXCEPT ![n].view[""].dup = TRUE] ELSE ntxn]
    ELSE IF SUB_DBI \in ntxn[n].dbis
    THEN [rc |-> "MDB_SUCCESS", d |-> SUB_DBI, nt |-> ntxn]
    ELSE IF v[""].dup
    THEN fail(IF "MDB_CREATE" \in flags THEN "MDB_INCOMPATIBLE" ELSE "MDB_NOTFOUND")
    ELSE IF v[name].exists
    THEN [rc |-> "MDB_SUCCESS", d |-> SUB_DBI,
          nt |-> [ntxn EXCEPT ![n].dbis = @ \cup {SUB_DBI}]]
    ELSE IF "MDB_CREATE" \notin flags THEN fail("MDB_NOTFOUND")
    ELSE IF ntxn[n].rdonly THEN fail("EACCES")
    ELSE [rc |-> "MDB_SUCCESS", d |-> SUB_DBI,
          nt |-> [ntxn EXCEPT ![n].dbis = @ \cup {SUB_DBI},
                              ![n].view[name] =
                                  [NoDb EXCEPT !.exists = TRUE,
                                               !.dup = "MDB_DUPSORT" \in flags]]]

\* open() without its "already open" check.
open_check_reopen(d, o) == IF o.txnptr = 0 THEN "MDB_BAD_TXN" ELSE "MDB_SUCCESS"

\* dbi_t::open(): the checks made before the engine is called.
open_check(d, o) ==
    IF d.opened_ THEN "MDB_BAD_DBI"
    ELSE IF o.txnptr = 0 THEN "MDB_BAD_TXN"
    ELSE "MDB_SUCCESS"

\* dbi_t::open(txn, name, flags...) with the name one of names and the flags one
\* of flagsets.
dbi_open_with(t, names, flagsets) ==
    /\ ~crashed
    /\ txn[t].alive /\ pc[t] = "idle"
    /\ \E name \in names, flags \in flagsets :
       LET n == txn[t].txnptr IN
       IF open_check(dbi, txn[t]) # "MDB_SUCCESS"
       THEN /\ OpenStep(t, FALSE, dbi, ntxn, open_check(dbi, txn[t]), name, flags)
            /\ UNCHANGED <<ub, crashed>>
       ELSE IF ~Held(n)
       THEN /\ \E dies \in BOOLEAN : Undefined(dies)
            /\ OpenStep(t, TRUE, [dbi EXCEPT !.opened_ = FALSE], ntxn, "MDB_BAD_TXN", name, flags)
       ELSE /\ LET r == EngineDbiOpen(n, name, flags) IN
               OpenStep(t, TRUE, IF r.rc = "MDB_SUCCESS"
                           THEN [dbi_ |-> r.d, opened_ |-> TRUE]
                           ELSE [dbi EXCEPT !.opened_ = FALSE],
                        r.nt, r.rc, name, flags)
            /\ UNCHANGED <<ub, crashed>>
    /\ UNCHANGED <<env, henv, disk, txn, pc, io, other, cur>>

\* dbi_t::open(txn) of the unnamed database
dbi_open(t) == dbi_open_with(t, {""}, {{}})

\* dbi_t::put, get, del: the check made before the engine is called.
dbi_check(o) == IF ~dbi.opened_ \/ o.txnptr = 0 THEN "MDB_BAD_TXN" ELSE "MDB_SUCCESS"

\* mdb_put(k, v, flags) on database db: the status and the database afterwards.
EnginePut(db, k, v, flags) ==
    IF "MDB_NOOVERWRITE" \in flags /\ db.kv[k] # {}
    THEN [rc |-> "MDB_KEYEXIST", db |-> db]
    ELSE IF db.dup /\ "MDB_NODUPDATA" \in flags /\ v \in db.kv[k]
    THEN [rc |-> "MDB_KEYEXIST", db |-> db]
    ELSE [rc |-> "MDB_SUCCESS",
          db |-> [db EXCEPT !.kv[k] = IF db.dup THEN @ \cup {v} ELSE {v}]]

\* mdb_del that takes every key for a match of its value.
EngineDel_anyvalue(db, k, hasv, v) ==
    IF db.kv[k] = {} THEN [rc |-> "MDB_NOTFOUND", db |-> db]
    ELSE [rc |-> "MDB_SUCCESS", db |-> [db EXCEPT !.kv[k] = {}]]

\* mdb_del(k, data) on database db, data being nullptr (hasv false) or v: the
\* status and the database afterwards.  Without MDB_DUPSORT the data is ignored.
EngineDel(db, k, hasv, v) ==
    IF hasv /\ db.dup
    THEN IF v \in db.kv[k]
         THEN [rc |-> "MDB_SUCCESS", db |-> [db EXCEPT !.kv[k] = @ \ {v}]]
         ELSE [rc |-> "MDB_NOTFOUND", db |-> db]
    ELSE IF db.kv[k] = {} THEN [rc |-> "MDB_NOTFOUND", db |-> db]
    ELSE [rc |-> "MDB_SUCCESS", db |-> [db EXCEPT !.kv[k] = {}]]

\* mdb_get answering with the last of the key's values.
EngineGet_last(db, k) ==
    IF db.kv[k] = {} THEN [rc |-> "MDB_NOTFOUND", val |-> NoVal]
    ELSE [rc |-> "MDB_SUCCESS", val |-> CHOOSE x \in db.kv[k] : \A y \in db.kv[k] : y <= x]

\* mdb_get(k) on database db: the status and the value, the first one of the key.
EngineGet(db, k) ==
    IF db.kv[k] = {} THEN [rc |-> "MDB_NOTFOUND", val |-> NoVal]
    ELSE [rc |-> "MDB_SUCCESS", val |-> First(db.kv[k])]

\* dbi_t::put(txn, key, value, flags...)
put(t) ==
    /\ ~crashed
    /\ txn[t].alive /\ pc[t] = "idle"
    /\ \E k \in Keys, v \in Vals, flags \in PutFlagSets :
       LET n == txn[t].txnptr IN
       IF dbi_check(txn[t]) # "MDB_SUCCESS"
       THEN /\ DataStep(t, FALSE, ntxn, "put", dbi_check(txn[t]), k, v)
            /\ UNCHANGED <<ub, crashed>>
       ELSE IF ~Held(n)
       THEN /\ \E dies \in BOOLEAN : Undefined(dies)
            /\ DataStep(t, TRUE, ntxn, "put", "MDB_BAD_TXN", k, v)
       ELSE /\ LET acc == EngineDb(n, dbi.dbi_, TRUE)
                   r == EnginePut(DbOf(n, dbi.dbi_), k, v, flags)
               IN
               IF acc # "MDB_SUCCESS"
               THEN DataStep(t, TRUE, ntxn, "put", acc, k, v)
               ELSE DataStep(t, TRUE, WithDb(n, dbi.dbi_, r.db), "put", r.rc, k, v)
            /\ UNCHANGED <<ub, crashed>>
    /\ UNCHANGED <<env, henv, disk, txn, pc, io, other, cur>>

\* dbi_t::del(txn, key) and, with hasv, dbi_t::del(txn, key, value)
del_with(t, hasv, op) ==
    /\ ~crashed
    /\ txn[t].alive /\ pc[t] = "idle"
    /\ \E k \in Keys, v \in Vals :
       LET n == txn[t].txnptr
           arg == IF hasv THEN v ELSE NoVal
       IN
       IF dbi_check(txn[t]) # "MDB_SUCCESS"
       THEN /\ DataStep(t, FALSE, ntxn, op, dbi_check(txn[t]), k, arg)
            /\ UNCHANGED <<ub, crashed>>
       ELSE IF ~Held(n)
       THEN /\ \E dies \in BOOLEAN : Undefined(dies)
            /\ DataStep(t, TRUE, ntxn, op, "MDB_BAD_TXN", k, arg)
       ELSE /\ LET acc == EngineDb(n, dbi.dbi_, TRUE)
                   r == EngineDel(DbOf(n, dbi.dbi_), k, hasv, v)
               IN
               IF acc # "MDB_SUCCESS"
               THEN DataStep(t, TRUE, ntxn, op, acc, k, arg)
               ELSE DataStep(t, TRUE, WithDb(n, dbi.dbi_, r.db), op, r.rc, k, arg)
            /\ UNCHANGED <<ub, crashed>>
    /\ UNCHANGED <<env, henv, disk, txn, pc, io, other, cur>>

\* dbi_t::del(txn, key)
del(t) == del_with(t, FALSE, "del")

\* dbi_t::del(txn, key, value)
del_value(t) == del_with(t, TRUE, "del_value")

\* dbi_t::get(txn, key, out_value)
get(t) ==
    /\ ~crashed
    /\ txn[t].alive /\ pc[t] = "idle"
    /\ \E k \in Keys :
       LET n == txn[t].txnptr IN
       IF dbi_check(txn[t]) # "MDB_SUCCESS"
       THEN /\ DataStep(t, FALSE, ntxn, "get", dbi_check(txn[t]), k, NoVal)
            /\ UNCHANGED <<ub, crashed>>
       ELSE IF ~Held(n)
       THEN /\ \E dies \in BOOLEAN : Undefined(dies)
            /\ DataStep(t, TRUE, ntxn, "get", "MDB_BAD_TXN", k, NoVal)
       ELSE /\ LET acc == EngineDb(n, dbi.dbi_, FALSE)
                   r == EngineGet(DbOf(n, dbi.dbi_), k)
               IN
               IF acc # "MDB_SUCCESS"
               THEN DataStep(t, TRUE, ntxn, "get", acc, k, NoVal)
               ELSE DataStep(t, TRUE, ntxn, "get", r.rc, k, r.val)
            /\ UNCHANGED <<ub, crashed>>
    /\ UNCHANGED <<env, henv, disk, txn, pc, io, other, cur>>

\* dbi_t::erase, dbi_t::drop: the check made before the engine is called.
drop_check(o) == IF ~dbi.opened_ \/ o.txnptr = 0 THEN "MDB_BAD_DBI" ELSE "MDB_SUCCESS"

\* mdb_drop that leaves the database as it is.
EngineDrop_keep(n, d, delete) == ntxn

\* mdb_drop(n, d, del) on a database the engine can write: the transactions
\* afterwards.  The contents go; with del a named database goes too, and its handle.
EngineDrop(n, d, delete) ==
    IF delete /\ d # MAIN_DBI
    THEN [ntxn EXCEPT ![n].view[NameOf(d)] = NoDb, ![n].dbis = @ \ {d}]
    ELSE [ntxn EXCEPT ![n].view[NameOf(d)].kv = NoDb.kv]

\* dbi_t::erase(txn)
erase(t) ==
    /\ ~crashed
    /\ txn[t].alive /\ pc[t] = "idle"
    /\ LET n == txn[t].txnptr IN
       IF drop_check(txn[t]) # "MDB_SUCCESS"
       THEN /\ DataStep(t, FALSE, ntxn, "erase", drop_check(txn[t]), NoKey, NoVal)
            /\ UNCHANGED <<ub, crashed>>
       ELSE IF ~Held(n)
       THEN /\ \E dies \in BOOLEAN : Undefined(dies)
            /\ DataStep(t, TRUE, ntxn, "erase", "MDB_BAD_TXN", NoKey, NoVal)
       ELSE /\ LET acc == EngineDb(n, dbi.dbi_, TRUE) IN
               DataStep(t, TRUE, IF acc = "MDB_SUCCESS" THEN EngineDrop(n, dbi.dbi_, FALSE) ELSE ntxn,
                        "erase", acc, NoKey, NoVal)
            /\ UNCHANGED <<ub, crashed>>
    /\ UNCHANGED <<env, henv, disk, txn, pc, io, other, cur>>

\* drop() closing the dbi_t whatever the engine answered.
drop_done_always(d, rc) == [d EXCEPT !.opened_ = FALSE]

\* dbi_t::drop(): the fields after mdb_drop returned rc.
drop_done(d, rc) == IF rc = "MDB_SUCCESS" THEN [d EXCEPT !.opened_ = FALSE] ELSE d

\* dbi_t::drop(txn)
drop(t) ==
    /\ ~crashed
    /\ txn[t].alive /\ pc[t] = "idle"
    /\ LET n == txn[t].txnptr IN
       IF drop_check(txn[t]) # "MDB_SUCCESS"
       THEN /\ DbiStep(t, FALSE, dbi, ntxn, "drop", drop_check(txn[t]), NoVal)
            /\ UNCHANGED <<henv, ub, crashed>>
       ELSE IF ~Held(n)
       THEN /\ \E dies \in BOOLEAN : Undefined(dies)
            /\ DbiStep(t, TRUE, drop_done(dbi, "MDB_BAD_TXN"), ntxn, "drop", "MDB_BAD_TXN", NoVal)
            /\ UNCHANGED henv
       ELSE /\ LET acc == EngineDb(n, dbi.dbi_, TRUE) IN
               /\ DbiStep(t, TRUE, drop_done(dbi, acc),
                          IF acc = "MDB_SUCCESS" THEN EngineDrop(n, dbi.dbi_, TRUE) ELSE ntxn,
                          "drop", acc, NoVal)
               /\ henv' = IF acc = "MDB_SUCCESS"
                          THEN [henv EXCEPT ![ntxn[n].env].dbis = @ \ {dbi.dbi_}]
                          ELSE henv
            /\ UNCHANGED <<ub, crashed>>
    /\ UNCHANGED <<env, disk, txn, pc, io, other, cur>>

\* dbi_t::stat(txn, out)
stat(t) ==
    /\ ~crashed
    /\ txn[t].alive /\ pc[t] = "idle"
    /\ LET n == txn[t].txnptr IN
       IF dbi_check(txn[t]) # "MDB_SUCCESS"
       THEN /\ DataStep(t, FALSE, ntxn, "stat", dbi_check(txn[t]), NoKey, NoVal)
            /\ UNCHANGED <<ub, crashed>>
       ELSE IF ~Held(n)
       THEN /\ \E dies \in BOOLEAN : Undefined(dies)
            /\ DataStep(t, TRUE, ntxn, "stat", "MDB_BAD_TXN", NoKey, NoVal)
       ELSE /\ DataStep(t, TRUE, ntxn, "stat", EngineDb(n, dbi.dbi_, FALSE), NoKey, NoVal)
            /\ UNCHANGED <<ub, crashed>>
    /\ UNCHANGED <<env, henv, disk, txn, pc, io, other, cur>>

\* dbi_t::set_key_compare, set_value_compare: the check made before the engine
\* is called.
compare_check(o) == IF ~dbi.opened_ THEN "MDB_BAD_DBI" ELSE "MDB_SUCCESS"

\* dbi_t::set_key_compare(txn, cmp) and dbi_t::set_value_compare(txn, cmp):
\* mdb_set_compare / mdb_set_dupsort get txn.handle() as it is, nullptr too, and
\* look only at the database handle.
set_compare(t, op) ==
    /\ ~crashed
    /\ txn[t].alive /\ pc[t] = "idle"
    /\ LET n == txn[t].txnptr IN
       IF compare_check(txn[t]) # "MDB_SUCCESS"
       THEN /\ DataStep(t, FALSE, ntxn, op, compare_check(txn[t]), NoKey, NoVal)
            /\ UNCHANGED <<ub, crashed>>
       ELSE IF ~Held(n)
       THEN /\ \E dies \in BOOLEAN : Undefined(dies)
            /\ DataStep(t, TRUE, ntxn, op, "EINVAL", NoKey, NoVal)
       ELSE /\ DataStep(t, TRUE, ntxn, op,
                        IF DbValid(n, dbi.dbi_) THEN "MDB_SUCCESS" ELSE "EINVAL",
                        NoKey, NoVal)
            /\ UNCHANGED <<ub, crashed>>
    /\ UNCHANGED <<env, henv, disk, txn, pc, io, other, cur>>

set_key_compare(t) == set_compare(t, "set_key_compare")
set_value_compare(t) == set_compare(t, "set_value_compare")

\* dbi_t::dbi_t(): the program lets go of its dbi_t and makes a fresh one.
dbi_construct ==
    /\ ~crashed
    /\ dbi' = [dbi_ |-> 0, opened_ |-> FALSE]
    /\ last' = Call("dbi_construct", 0, "MDB_SUCCESS", 0)
    /\ UNCHANGED <<env, henv, disk, txn, pc, ntxn, ub, crashed, io, other, cur>>

\* ~txn_t() in a program that ends its transaction before it lets the object go.
destroy_ended(t) == txn[t].txnptr = 0 /\ destroy(t)

\* ---------------------------------------------------------- specification
\* The environment and the life cycle of its transactions.
Next ==
    \/ open
    \/ \E t \in TxnObjs : construct(t)
    \/ \E t \in TxnObjs : destroy(t)
    \/ \E t \in TxnObjs : begin(t)
    \/ \E t \in TxnObjs : begin_acquire(t)
    \/ \E t \in TxnObjs : commit(t)
    \/ \E t \in TxnObjs : abort(t)
    \/ \E t \in TxnObjs : reset(t)
    \/ \E t \in TxnObjs : renew(t)

Spec == Init /\ [][Next]_vars

\* A thread waiting for the writer mutex gets it when it stays free.
FairSpec == Spec /\ \A t \in TxnObjs : WF_vars(begin_acquire(t))

\* One transaction object at a time, read-only or read-write, working on the
\* unnamed database.
NextData ==
    \/ open
    \/ \E t \in DataObjs : construct(t)
    \/ \E t \in DataObjs : begin(t)
    \/ \E t \in DataObjs : begin_acquire(t)
    \/ \E t \in DataObjs : commit(t)
    \/ \E t \in DataObjs : abort(t)
    \/ \E t \in DataObjs : dbi_open(t)
    \/ \E t \in DataObjs : put(t)
    \/ \E t \in DataObjs : del(t)
    \/ \E t \in DataObjs : get(t)

SpecData == Init /\ [][NextData]_vars

\* txn_t::type() of the object is transaction_type_t::readonly.
reader(t) == txn[t].alive /\ txn[t].type = "readonly"

\* One transaction object, first of one type and then of the other, on the
\* unnamed database of one environment: the program stores with put() and
\* commits, and makes every writing call with a read-only transaction.
NextWrites ==
    \/ open
    \/ \E t \in DataObjs : construct(t)
    \/ \E t \in DataObjs : destroy_ended(t)
    \/ \E t \in DataObjs : begin(t)
    \/ \E t \in DataObjs : begin_acquire(t)
    \/ \E t \in DataObjs : commit(t)
    \/ \E t \in DataObjs : dbi_open(t)
    \/ \E t \in DataObjs : put(t)
    \/ \E t \in DataObjs : reader(t) /\ del(t)
    \/ \E t \in DataObjs : reader(t) /\ del_value(t)
    \/ \E t \in DataObjs : reader(t) /\ erase(t)
    \/ \E t \in DataObjs : reader(t) /\ drop(t)

SpecWrites == Init /\ [][NextWrites]_vars

\* One transaction object at a time working on the unnamed database, kept with
\* or without duplicates: what the data calls do inside a transaction.
NextDbi ==
    \/ open
    \/ \E t \in DataObjs : construct(t)
    \/ \E t \in DataObjs : begin(t)
    \/ \E t \in DataObjs : begin_acquire(t)
    \/ \E t \in DataObjs : abort(t)
    \/ \E t \in DataObjs : dbi_open_with(t, {""}, SUBSET {"MDB_DUPSORT"})
    \/ \E t \in DataObjs : put(t)
    \/ \E t \in DataObjs : del(t)
    \/ \E t \in DataObjs : del_value(t)
    \/ \E t \in DataObjs : get(t)
    \/ \E t \in DataObjs : erase(t)
    \/ \E t \in DataObjs : drop(t)

SpecDbi == Init /\ [][NextDbi]_vars

\* One transaction object at a time opening, creating and dropping databases.
NextNamed ==
    \/ open
    \/ \E t \in DataObjs : construct(t)
    \/ \E t \in DataObjs : destroy_ended(t)
    \/ \E t \in DataObjs : begin(t)
    \/ \E t \in DataObjs : begin_acquire(t)
    \/ \E t \in DataObjs : commit(t)
    \/ \E t \in DataObjs : abort(t)
    \/ \E t \in DataObjs : dbi_open_with(t, DbNames, SUBSET {"MDB_CREATE"})
    \/ \E t \in DataObjs : drop(t)
    \/ dbi_construct

SpecNamed == Init /\ [][NextNamed]_vars

\* One transaction object at a time and every call of the dbi_t, on the unnamed
\* database and on a named one, inside a transaction.
NextDrop ==
    \/ open
    \/ \E t \in DataObjs : construct(t)
    \/ \E t \in DataObjs : begin(t)
    \/ \E t \in DataObjs : begin_acquire(t)
    \/ \E t \in DataObjs : abort(t)
    \/ \E t \in DataObjs : dbi_open_with(t, DbNames, SUBSET {"MDB_CREATE"})
    \/ \E t \in DataObjs : put(t)
    \/ \E t \in DataObjs : del(t)
    \/ \E t \in DataObjs : get(t)
    \/ \E t \in DataObjs : erase(t)
    \/ \E t \in DataObjs : drop(t)
    \/ \E t \in DataObjs : stat(t)
    \/ \E t \in DataObjs : set_key_compare(t)
    \/ \E t \in DataObjs : set_value_compare(t)

SpecDrop == Init /\ [][NextDrop]_vars

\* One transaction object at a time, through its whole life cycle, and every
\* call of the dbi_t made with it, before, inside and after a transaction.
NextCalls ==
    \/ open
    \/ \E t \in DataObjs : construct(t)
    \/ \E t \in DataObjs : destroy_ended(t)
    \/ \E t \in DataObjs : begin(t)
    \/ \E t \in DataObjs : begin_acquire(t)
    \/ \E t \in DataObjs : commit(t)
    \/ \E t \in DataObjs : abort(t)
    \/ \E t \in DataObjs : reset(t)
    \/ \E t \in DataObjs : renew(t)
    \/ \E t \in DataObjs : dbi_open(t)
    \/ \E t \in DataObjs : put(t)
    \/ \E t \in DataObjs : del(t)
    \/ \E t \in DataObjs : get(t)
    \/ \E t \in DataObjs : erase(t)
    \/ \E t \in DataObjs : drop(t)
    \/ \E t \in DataObjs : stat(t)
    \/ \E t \in DataObjs : set_key_compare(t)
    \/ \E t \in DataObjs : set_value_compare(t)

SpecCalls == Init /\ [][NextCalls]_vars

\* Two transaction objects, their transactions, and the moves between them.
NextMove ==
    \/ open
    \/ \E t \in TxnObjs : construct(t)
    \/ \E t \in TxnObjs : destroy(t)
    \/ \E t \in TxnObjs : begin(t)
    \/ \E t \in TxnObjs : begin_acquire(t)
    \/ \E t \in TxnObjs : commit(t)
    \/ \E t \in TxnObjs : abort(t)
    \/ \E s, d \in TxnObjs : txn_move_construct(s, d)
    \/ \E s, d \in TxnObjs : txn_move_assign(s, d)

SpecMove == Init /\ [][NextMove]_vars

\* Two transaction objects through every call that changes their handle or
\* their committed flag; objects are destroyed only once their transaction ended.
NextHandle ==
    \/ open
    \/ \E t \in TxnObjs : construct(t)
    \/ \E t \in TxnObjs : destroy_ended(t)
    \/ \E t \in TxnObjs : begin(t)
    \/ \E t \in TxnObjs : begin_acquire(t)
    \/ \E t \in TxnObjs : commit(t)
    \/ \E t \in TxnObjs : abort(t)
    \/ \E t \in TxnObjs : reset(t)
    \/ \E t \in TxnObjs : renew(t)
    \/ \E s, d \in TxnObjs : txn_move_construct(s, d)
    \/ \E s, d \in TxnObjs : txn_move_assign(s, d)

SpecHandle == Init /\ [][NextHandle]_vars

\* The environment opened, closed and opened again under one transaction
\* object and the dbi_t.
NextClose ==
    \/ open_within(MaxEnvHandles + MaxEnvReopens)
    \/ close
    \/ \E t \in DataObjs : construct(t)
    \/ \E t \in DataObjs : destroy_ended(t)
    \/ \E t \in DataObjs : begin(t)
    \/ \E t \in DataObjs : begin_acquire(t)
    \/ \E t \in DataObjs : commit(t)
    \/ \E t \in DataObjs : abort(t)
    \/ \E t \in DataObjs : dbi_open_with(t, DbNames, SUBSET {"MDB_CREATE"})
    \/ \E t \in DataObjs : erase(t)
    \/ \E t \in DataObjs : drop(t)

SpecClose == Init /\ [][NextClose]_vars

\* ---------------------------------------------------------------- cursor_t
\* The keys a sub-database can hold under a cursor, in the engine's order.
CursorKeys == 1..MaxCursorKeys

\* The last of the keys s in the engine's order.
Last(s) == CHOOSE x \in s : \A y \in s : y <= x

\* The key a positioning call ends on in the store s, NoKey for not-found.
cursor_first(s) == IF s = {} THEN NoKey ELSE First(s)

cursor_last(s) == IF s = {} THEN NoKey ELSE Last(s)

\* next() that does not leave the key it stands on.
cursor_next_stuck(s, pos) ==
    IF pos = NoKey THEN cursor_first(s) ELSE cursor_first({x \in s : x >= pos})

\* next(): the first key after the position; from no position, the first key.
cursor_next(s, pos) ==
    IF pos = NoKey THEN cursor_first(s) ELSE cursor_first({x \in s : x > pos})

\* prior(): the last key before the position; from no position, the last key.
cursor_prior(s, pos) ==
    IF pos = NoKey THEN cursor_last(s) ELSE cursor_last({x \in s : x < pos})

\* search() that takes the first key after the target.
cursor_search_after(s, k) == cursor_first({x \in s : x > k})

\* search(k): the first key greater than or equal to k.
cursor_search(s, k) == cursor_first({x \in s : x >= k})

\* find(k): k itself, when it is stored.
cursor_find(s, k) == IF k \in s THEN k ELSE NoKey

\* The status of a positioning call that ended on key k.
cursor_status(k) == IF k = NoKey THEN "MDB_NOTFOUND" ELSE "MDB_SUCCESS"

\* A call of the cursor: op(target) returned key k and left the cursor as c.
CursorStep(c, op, k, target) ==
    /\ cur' = c
    /\ last' = [Call(op, 0, cursor_status(k), 0) EXCEPT !.key = k, !.arg = target]
    /\ UNCHANGED <<env, henv, disk, txn, pc, ntxn, dbi, ub, crashed, io, other>>

\* cursor_t::open(txn, dbi) on a sub-database that holds the keys store.
cursor_open ==
    /\ ~cur.opened
    /\ \E store \in SUBSET CursorKeys :
         /\ cur' = [NoCursor EXCEPT !.opened = TRUE, !.store = store]
         /\ last' = Call("cursor_open", 0, "MDB_SUCCESS", 0)
    /\ UNCHANGED <<env, henv, disk, txn, pc, ntxn, dbi, ub, crashed, io, other>>

\* cursor_t::close()
cursor_close ==
    /\ cur.opened
    /\ cur' = NoCursor
    /\ last' = Call("cursor_close", 0, "MDB_SUCCESS", 0)
    /\ UNCHANGED <<env, henv, disk, txn, pc, ntxn, dbi, ub, crashed, io, other>>

\* cursor_t::first(): a forward run starts.
first ==
    /\ cur.opened
    /\ LET k == cursor_first(cur.store) IN
       CursorStep([cur EXCEPT !.pos = k,
                              !.run = IF k = NoKey THEN "fwd_end" ELSE "fwd",
                              !.trail = IF k = NoKey THEN <<>> ELSE <<k>>],
                  "first", k, <<>>)

\* cursor_t::last(): a backward run starts.
last_ ==
    /\ cur.opened
    /\ LET k == cursor_last(cur.store) IN
       CursorStep([cur EXCEPT !.pos = k,
                              !.run = IF k = NoKey THEN "back_end" ELSE "back",
                              !.trail = IF k = NoKey THEN <<>> ELSE <<k>>],
                  "last", k, <<>>)

\* cursor_t::next(): past the last key it is not-found and the cursor stays.
next ==
    /\ cur.opened
    /\ LET k == cursor_next(cur.store, cur.pos) IN
       CursorStep([cur EXCEPT !.pos = IF k = NoKey THEN cur.pos ELSE k,
                              !.run = IF cur.run = "fwd"
                                      THEN (IF k = NoKey THEN "fwd_end" ELSE "fwd")
                                      ELSE IF cur.run = "fwd_end" /\ k = NoKey
                                      THEN "fwd_end" ELSE "none",
                              !.trail = IF cur.run = "fwd" /\ k # NoKey
                                        THEN Append(cur.trail, k)
                                        ELSE IF cur.run \in {"fwd", "fwd_end"} /\ k = NoKey
                                        THEN cur.trail ELSE <<>>],
                  "next", k, <<>>)

\* cursor_t::prior(): before the first key it is not-found and the cursor stays.
prior ==
    /\ cur.opened
    /\ LET k == cursor_prior(cur.store, cur.pos) IN
       CursorStep([cur EXCEPT !.pos = IF k = NoKey THEN cur.pos ELSE k,
                              !.run = IF cur.run = "back"
                                      THEN (IF k = NoKey THEN "back_end" ELSE "back")
                                      ELSE IF cur.run = "back_end" /\ k = NoKey
                                      THEN "back_end" ELSE "none",
                              !.trail = IF cur.run = "back" /\ k # NoKey
                                        THEN Append(cur.trail, k)
                                        ELSE IF cur.run \in {"back", "back_end"} /\ k = NoKey
                                        THEN cur.trail ELSE <<>>],
                  "prior", k, <<>>)

\* A positioning call by key that ended on k: on not-found the position is
\* whatever the engine leaves.
Positioned(op, k, target) ==
    \E p \in (IF k = NoKey THEN {NoKey} \cup cur.store ELSE {k}) :
       CursorStep([cur EXCEPT !.pos = p, !.run = "none", !.trail = <<>>],
                  op, k, <<target>>)

\* cursor_t::search(target, key, value)
search ==
    /\ cur.opened
    /\ \E target \in CursorKeys : Positioned("search", cursor_search(cur.store, target), target)

\* cursor_t::find(target, key, value)
find ==
    /\ cur.opened
    /\ \E target \in CursorKeys : Positioned("find", cursor_find(cur.store, target), target)

\* One cursor over sub-databases of every content.
NextCursor ==
    \/ cursor_open
    \/ cursor_close
    \/ first
    \/ last_
    \/ next
    \/ prior
    \/ search
    \/ find

SpecCursor == Init /\ [][NextCursor]_vars

\* The codec on its own: conversions of inputs of every supported type, of
\* items the engine hands back, and into destinations of every type.
NextCodec ==
    \/ call_to_mdb_val
    \/ call_mdb_get
    \/ call_from_mdb_val

SpecCodec == Init /\ [][NextCodec]_vars

\* ------------------------------------------------------------------ claims
\* txn_t::pending()
pending(o) == o.txnptr # 0 /\ ~o.committed

\* The txn_t objects of type read-write whose native transaction the engine holds.
Writers == {t \in TxnObjs : txn[t].alive /\ txn[t].type = "readwrite" /\ Held(txn[t].txnptr)}

\* C1: when a txn_t is destroyed while its transaction is pending, the native
\* transaction is ended in the engine, as abort() would end it.
C1_DestroyAborts == (~ub /\ last.op = "destroy" /\ last.h # 0) => ~Held(last.h)

\* C2: when commit() is called on a pending transaction, the txn_t holds no
\* native handle when the call returns, whether the engine's commit succeeded
\* or failed.
C2_CommitDropsHandle ==
    (~ub /\ last.op = "commit" /\ last.h # 0)
        => (txn[last.t].txnptr = 0 /\ ~pending(txn[last.t]))

\* C3: a begin() that follows a commit() or abort() of a pending transaction on
\* the same txn_t is not rejected as already started, and with the environment
\* open it returns what the engine answered.
C3_BeginAfterEnd ==
    [][(/\ ~ub'
        /\ last.op \in {"commit", "abort"}
        /\ last.h # 0
        /\ last'.op \in {"begin", "begin_wait"}
        /\ last'.t = last.t)
       => (/\ last'.rc # "MDB_BAD_TXN"
           /\ EnvIsOpen(txn[last.t].envptr) => last'.rc \in {"MDB_SUCCESS", "ENOMEM"})]_vars

\* C4: at most one read-write transaction is pending per environment; a
\* read-write begin() returns success only when no other write transaction of
\* the environment is held, and only read-write begin() calls ever wait.
C4_SingleWriter ==
    /\ [](\A h \in EnvHandles :
             Cardinality({t \in Writers : txn[t].envptr = h}) <= 1)
    /\ [](\A t \in TxnObjs : pc[t] = "in_begin" => txn[t].type = "readwrite")
    /\ [][(/\ last'.op = "begin"
           /\ last'.rc = "MDB_SUCCESS"
           /\ txn[last'.t].type = "readwrite")
          => ~WriterHeld(txn[last'.t].envptr)]_vars

\* A read-write begin() waits while another txn_t holds the write transaction.
C4_Witness ==
    \E t, u \in TxnObjs :
        /\ pc[t] = "in_begin"
        /\ u \in Writers
        /\ txn[u].envptr = txn[t].envptr

\* No txn_t object is in a read-write transaction it began and did not end.
HolderGone ==
    \A u \in TxnObjs : ~(txn[u].alive /\ txn[u].type = "readwrite" /\ txn[u].txnptr # 0)

\* C5: in a process that keeps running, a read-write begin() does not stay
\* blocked for ever once every holder has committed, aborted or been destroyed.
C5_BlockedBeginReturns ==
    \A t \in TxnObjs : []<>(~(pc[t] = "in_begin" /\ HolderGone /\ ~crashed))

\* C6: while the environment is open every configuration mutator returns
\* MDB_INVALID and leaves every option as it was.
C6_ConfigFrozen ==
    [][(last'.op \in ConfigOps /\ env.isopen)
       => (last'.rc = "MDB_INVALID" /\ Options(env') = Options(env))]_vars

\* A mutator was refused on the open environment.
C6_Witness == last.op \in ConfigOps /\ last.rc = "MDB_INVALID" /\ env.isopen

\* C7: begin() on a txn_t that holds a native handle returns MDB_BAD_TXN,
\* starts no native transaction and leaves the object and its transaction as
\* they were.
C7_DoubleBegin ==
    [][(last'.op \in {"begin", "begin_wait"} /\ txn[last'.t].txnptr # 0)
       => (/\ last'.rc = "MDB_BAD_TXN"
           /\ ntxn' = ntxn
           /\ txn' = txn
           /\ pc' = pc)]_vars

\* begin() was refused on a txn_t whose transaction is running.
C7_Witness == last.op = "begin" /\ last.rc = "MDB_BAD_TXN" /\ Live(txn[last.t].txnptr)

\* C8: commit() and abort() on a txn_t without a native handle return an error,
\* make no engine call and leave the object idle.
C8_EndWithoutBegin ==
    [][(last'.op \in {"commit", "abort"} /\ txn[last'.t].txnptr = 0)
       => (/\ last'.rc # "MDB_SUCCESS"
           /\ ntxn' = ntxn /\ disk' = disk /\ henv' = henv /\ ub' = ub
           /\ txn'[last'.t].txnptr = 0
           /\ ~pending(txn'[last'.t]))]_vars

\* commit() or abort() was refused on an idle txn_t.
C8_Witness == last.op \in {"commit", "abort"} /\ last.h = 0 /\ last.rc = "MDB_BAD_TXN"

\* The committed image of the store of environment handle h after the step.
CommittedNext(h) == disk'[henv'[h].loc].image

\* C9: a successful commit() of a write transaction makes its image the
\* committed one, nothing else changes the committed image (so an aborted
\* transaction leaves what was there before it began), and a transaction that
\* begins sees the committed image.
C9_CommitAbortContents ==
    [][LET t == last'.t
           n == txn[t].txnptr
       IN
       /\ (last'.op = "commit" /\ last'.rc = "MDB_SUCCESS" /\ Held(n) /\ ~ntxn[n].rdonly)
             => CommittedNext(ntxn[n].env) = ntxn[n].view
       /\ (\E l \in Locations : disk'[l].image # disk[l].image)
             => (last'.op = "commit" /\ last'.rc = "MDB_SUCCESS" /\ Held(n) /\ ~ntxn[n].rdonly)
       /\ (last'.op = "abort" /\ Held(n)) => disk' = disk
       /\ (last'.op = "begin" /\ last'.rc = "MDB_SUCCESS")
             => ntxn'[txn'[t].txnptr].view = CommittedNext(txn[t].envptr)]_vars

\* A write transaction committed a value that was not there before.
C9_Witness ==
    /\ last.op = "commit" /\ last.rc = "MDB_SUCCESS" /\ last.h # 0
    /\ \E l \in Locations : disk[l].image # EmptyDb

\* C10: reset() and renew() on a pending read-write transaction return an
\* error and change neither the object nor its native transaction.
C10_ResetRenewWrite ==
    [][(/\ last'.op \in {"reset", "renew"}
        /\ txn[last'.t].type = "readwrite"
        /\ txn[last'.t].txnptr # 0)
       => (/\ last'.rc = "MDB_BAD_TXN"
           /\ txn' = txn
           /\ ntxn' = ntxn
           /\ ub' = ub)]_vars

\* reset() or renew() was refused on a running write transaction.
C10_Witness ==
    /\ last.op \in {"reset", "renew"} /\ last.rc = "MDB_BAD_TXN"
    /\ txn[last.t].type = "readwrite" /\ Live(txn[last.t].txnptr)

\* C11: after a successful reset() of a pending read-only transaction the txn_t
\* keeps its native handle and does not report itself pending, and after a
\* successful renew() it reports itself pending again.
C11_ResetState ==
    /\ (~ub /\ last.op = "reset" /\ last.rc = "MDB_SUCCESS")
          => (txn[last.t].txnptr # 0 /\ ~pending(txn[last.t]))
    /\ (~ub /\ last.op = "renew" /\ last.rc = "MDB_SUCCESS")
          => pending(txn[last.t])

\* The database the dbi_t is open on, as the native transaction of the call
\* that made the last step sees it.
LastDb == DbOf(last.h, dbi.dbi_)

\* C12 (as stated): in one transaction, on any open dbi_t, a get(k) that follows
\* a successful put(k, v) returns success with v, and a get(k) that follows a
\* successful del(k) returns MDB_NOTFOUND.
C12_PutGetDel_AsStated ==
    [][(/\ ~ub'
        /\ last.rc = "MDB_SUCCESS"
        /\ last'.op = "get" /\ last'.key = last.key /\ last'.h = last.h)
       => (/\ last.op = "put" => (last'.rc = "MDB_SUCCESS" /\ last'.val = last.val)
           /\ last.op = "del" => last'.rc = "MDB_NOTFOUND")]_vars

\* C12 (amended): in one transaction a get(k) that follows a successful
\* put(k, v) returns success; it returns v on a database without duplicates,
\* and on a database with duplicates the first of the values under k, of which
\* v is one.  A get(k) that follows a successful del(k) returns MDB_NOTFOUND.
C12_PutGetDel ==
    [][(/\ ~ub'
        /\ last.rc = "MDB_SUCCESS"
        /\ last'.op = "get" /\ last'.key = last.key /\ last'.h = last.h)
       => (/\ last.op = "put" =>
                /\ last'.rc = "MDB_SUCCESS"
                /\ last.val \in LastDb.kv[last.key]
                /\ IF LastDb.dup
                   THEN last'.val = First(LastDb.kv[last.key])
                   ELSE last'.val = last.val
           /\ last.op = "del" => last'.rc = "MDB_NOTFOUND")]_vars

\* get() returned the value just put on a database without duplicates.
C12_Witness ==
    /\ last.op = "get" /\ last.rc = "MDB_SUCCESS" /\ last.h # 0
    /\ ~LastDb.dup /\ LastDb.kv[last.key] = {last.val}
    /\ ~ntxn[last.h].rdonly

\* C17: open() on a dbi_t that is open returns MDB_BAD_DBI and leaves it open
\* on its handle; open() with a txn_t that holds no native handle returns
\* MDB_BAD_TXN and leaves the dbi_t closed; neither reaches the engine.
C17_OpenGuards ==
    [][(last'.op = "dbi_open")
       => (/\ dbi.opened_ =>
                (last'.rc = "MDB_BAD_DBI" /\ dbi' = dbi /\ ntxn' = ntxn /\ ub' = ub)
           /\ (~dbi.opened_ /\ txn[last'.t].txnptr = 0) =>
                (last'.rc = "MDB_BAD_TXN" /\ ~dbi'.opened_ /\ ntxn' = ntxn /\ ub' = ub))]_vars

\* open() was refused on an open dbi_t while a transaction was running.
C17_Witness ==
    /\ last.op = "dbi_open" /\ last.rc = "MDB_BAD_DBI"
    /\ dbi.opened_ /\ Live(last.h)

\* C18: open() of a named database with MDB_CREATE under a read-only
\* transaction does not succeed and leaves the dbi_t closed, whether the
\* database exists or not.
C18_CreateReadOnly ==
    [][(/\ ~ub'
        /\ last'.op = "dbi_open"
        /\ last'.arg[1] # "" /\ "MDB_CREATE" \in last'.arg[2]
        /\ ~dbi.opened_
        /\ Live(txn[last'.t].txnptr) /\ ntxn[txn[last'.t].txnptr].rdonly)
       => (last'.rc # "MDB_SUCCESS" /\ ~dbi'.opened_)]_vars

\* C19: put(), del(), erase() and drop() on an open dbi_t with a pending
\* read-only transaction do not succeed and change neither the contents, in the
\* transaction or in the store, nor the dbi_t.
C19_ReadOnlyWrites ==
    [][(/\ ~ub'
        /\ last'.op \in {"put", "del", "del_value", "erase", "drop"}
        /\ dbi.opened_
        /\ pending(txn[last'.t])
        /\ Held(txn[last'.t].txnptr) /\ ntxn[txn[last'.t].txnptr].rdonly)
       => (/\ last'.rc # "MDB_SUCCESS"
           /\ ntxn' = ntxn /\ disk' = disk /\ henv' = henv
           /\ dbi' = dbi)]_vars

\* A write was refused under a read-only transaction that sees stored values.
C19_Witness ==
    /\ last.op \in {"put", "del", "del_value", "erase", "drop"}
    /\ last.rc = "EACCES"
    /\ dbi.opened_ /\ Live(last.h) /\ ntxn[last.h].rdonly
    /\ \E k \in Keys : LastDb.kv[k] # {}

\* The values under key k of the open database after the step.
ValuesNext(k) == ntxn'[last'.h].view[NameOf(dbi.dbi_)].kv[k]

\* C20: on a database with duplicates a successful del(key) leaves no value
\* under the key, and del(key, value) succeeds exactly when the pair is stored
\* and then removes that pair alone; neither touches another key.
C20_DelDuplicates ==
    [][(/\ ~ub'
        /\ last'.op \in {"del", "del_value"}
        /\ last'.rc \in {"MDB_SUCCESS", "MDB_NOTFOUND"}
        /\ DbOf(last'.h, dbi.dbi_).dup)
       => LET s == DbOf(last'.h, dbi.dbi_).kv[last'.key] IN
          /\ last'.op = "del" =>
                /\ last'.rc = "MDB_SUCCESS" <=> s # {}
                /\ ValuesNext(last'.key) = {}
          /\ last'.op = "del_value" =>
                /\ last'.rc = "MDB_SUCCESS" <=> last'.val \in s
                /\ ValuesNext(last'.key) = s \ {last'.val}
          /\ \A k \in Keys \ {last'.key} :
                ValuesNext(k) = DbOf(last'.h, dbi.dbi_).kv[k]]_vars

\* del(key, value) took one of two values of a key and left the other.
C20_Witness ==
    /\ last.op = "del_value" /\ last.rc = "MDB_SUCCESS" /\ last.h # 0
    /\ LastDb.dup
    /\ Cardinality(LastDb.kv[last.key]) = 1
    /\ last.val \notin LastDb.kv[last.key]

BufferTypes == {"string", "string_view", "vector", "span"}

\* C13: from_mdb_val of what to_mdb_val made of a value v, into a destination
\* of v's type, succeeds and leaves the destination equal to v, whatever the
\* destination held before and also when v is empty.
C13_RoundTrip ==
    (io.op = "from_mdb_val" /\ io.src = "to_mdb_val" /\ io.out.type = io.in.type)
        => (io.rc = "MDB_SUCCESS" /\ Equal(io.out, io.in, io.mem))

C13_Witness ==
    /\ io.op = "from_mdb_val" /\ io.src = "to_mdb_val"
    /\ io.in.type = "string" /\ io.in.cells = <<>>
    /\ io.prev.type = "string" /\ io.prev.cells # <<>>
    /\ io.out.cells = <<>>

\* C14: to_mdb_val of a string or byte buffer (std::string, std::string_view,
\* std::vector<std::byte>, std::span<const std::byte>) yields the buffer's data
\* pointer and its element count; of any other input, the address of the
\* object and its sizeof.
C14_BufferPointer ==
    io.op = "to_mdb_val"
        => IF io.in.type \in BufferTypes
           THEN io.val.mv_data = Data(io.in) /\ io.val.mv_size = Size(io.in)
           ELSE io.val.mv_data = InputAddr /\ io.val.mv_size = SizeOf(io.in.type)

\* C15: to_mdb_val of an empty string or byte buffer yields mv_size = 0 and
\* mv_data = nullptr.
C15_EmptyIsNull ==
    (io.op = "to_mdb_val" /\ io.in.type \in BufferTypes /\ Size(io.in) = 0)
        => (io.val.mv_size = 0 /\ io.val.mv_data = NullPtr)

\* C16: from_mdb_val into a trivially copyable destination returns EPERM and
\* leaves the destination as it was when the length is not sizeof of its type;
\* when it is, the call succeeds and the destination holds exactly the sizeof
\* bytes of the buffer.
C16_SizeMismatch ==
    (io.op = "from_mdb_val" /\ get_serializable_kind(io.out.type) = "trivial")
        => IF io.val.mv_size # SizeOf(io.out.type)
           THEN io.rc = "EPERM" /\ io.out = io.prev
           ELSE /\ io.rc = "MDB_SUCCESS"
                /\ io.out.cells = io.mem[io.val.mv_data]
                /\ SizeOfCells(io.out.cells) = SizeOf(io.out.type)

C16_Witness ==
    /\ io.op = "from_mdb_val" /\ io.src = "mdb_get"
    /\ io.out.type = "record" /\ io.val.mv_size = 1
    /\ io.rc = "EPERM" /\ io.out = io.prev

C16_WitnessCopied ==
    /\ io.op = "from_mdb_val" /\ io.src = "mdb_get"
    /\ io.out.type = "record" /\ io.val.mv_size = 2
    /\ io.rc = "MDB_SUCCESS" /\ io.out # io.prev

\* The calls of a dbi_t that take a transaction.
DbiOps == {"dbi_open", "put", "get", "del", "del_value", "erase", "drop", "stat",
           "set_key_compare", "set_value_compare"}

\* C21: a successful erase() leaves the dbi_t open on an existing, empty
\* database, and a put() that follows in the transaction succeeds and a get()
\* finds nothing; a successful drop() leaves the dbi_t closed, a failed drop()
\* leaves it open; and on a dbi_t that is not open every call but open() fails
\* without reaching the engine and leaves it closed.
C21_EraseDrop ==
    [][LET n == txn[last'.t].txnptr IN
       /\ (~ub' /\ last'.op = "erase" /\ last'.rc = "MDB_SUCCESS")
             => (/\ dbi' = dbi /\ dbi'.opened_
                 /\ ntxn'[n].view[NameOf(dbi.dbi_)].exists
                 /\ \A k \in Keys : ntxn'[n].view[NameOf(dbi.dbi_)].kv[k] = {})
       /\ (~ub' /\ last.op = "erase" /\ last.rc = "MDB_SUCCESS" /\ last'.h = last.h)
             => (/\ last'.op = "put" => last'.rc = "MDB_SUCCESS"
                 /\ last'.op = "get" => last'.rc = "MDB_NOTFOUND")
       /\ (~ub' /\ last'.op = "drop" /\ last'.rc = "MDB_SUCCESS") => ~dbi'.opened_
       /\ (~ub' /\ last'.op = "drop" /\ last'.rc # "MDB_SUCCESS" /\ dbi.opened_)
             => dbi'.opened_
       /\ (~dbi.opened_ /\ last'.op \in DbiOps \ {"dbi_open"})
             => (last'.rc # "MDB_SUCCESS" /\ ~last'.eng /\ ~dbi'.opened_)]_vars

\* A call was refused, inside a running transaction, on a dbi_t that drop() closed.
C21_Witness ==
    /\ last.op \in DbiOps \ {"dbi_open", "drop"}
    /\ last.rc # "MDB_SUCCESS" /\ ~last.eng
    /\ ~dbi.opened_ /\ dbi.dbi_ # 0
    /\ Live(last.h) /\ ~ub

\* C22: a call of the dbi_t made with a transaction that is not pending returns
\* an error and does not reach the engine, and so does every call but open()
\* made on a dbi_t that is not open.
C22_PendingGuard ==
    [][(/\ ~ub
        /\ last'.op \in DbiOps
        /\ \/ ~pending(txn[last'.t])
           \/ (last'.op # "dbi_open" /\ ~dbi.opened_))
       => (last'.rc # "MDB_SUCCESS" /\ ~last'.eng)]_vars

\* The native environments the engine holds.
HeldEnvs == {h \in EnvHandles : EnvIsLive(h)}
HeldEnvsNext == {h \in EnvHandles : henv'[h].state \in {"created", "open"}}

\* C23: when env_t::open() fails it returns the failure, which is also
\* lasterror(); the environment is not open; the engine holds no native handle
\* but the one the env_t holds; and a configuration mutator called next is
\* accepted.
C23_OpenFailure ==
    [][/\ (last'.op = "open" /\ last'.rc # "MDB_SUCCESS")
             => (/\ ~env'.isopen
                 /\ env'.lasterror = last'.rc
                 /\ HeldEnvsNext \subseteq {env'.envptr}
                 /\ Cardinality(HeldEnvsNext) <= 1)
       /\ (last.op = "open" /\ last.rc # "MDB_SUCCESS" /\ last'.op \in ConfigOps)
             => last'.rc = "MDB_SUCCESS"]_vars

\* An open() succeeded on an env_t whose earlier open() had failed and released
\* its native handle.
C23_Witness ==
    /\ last.op = "open" /\ last.rc = "MDB_SUCCESS" /\ env.isopen
    /\ \E h \in EnvHandles : henv[h].state = "closed"

\* C24: after env_t::open() returned a failure, isopen() is false and handle()
\* is nullptr.
C24_FailedOpenNoHandle ==
    (last.op = "open" /\ last.rc # "MDB_SUCCESS") => (~env.isopen /\ env.envptr = 0)

\* C25: close() on an environment that close() has just closed makes no engine
\* call and changes nothing, in the object, the engine or the files.
C25_CloseIdempotent ==
    [][(last.op = "close" /\ last'.op = "close")
       => (/\ ~last'.eng
           /\ env' = env /\ henv' = henv /\ ntxn' = ntxn /\ disk' = disk)]_vars

\* A second close() followed the close() of an open environment.
C25_Witness ==
    /\ last.op = "close" /\ ~last.eng /\ last.arg = <<FALSE>>
    /\ env.envptr = 0
    /\ \E h \in EnvHandles : henv[h].state = "closed"

\* C26: close() of an open environment that carries MDB_EPHEMERAL leaves no
\* backing files, exist() is false; files go only at a location no native handle
\* has open; and the engine is never given MDB_EPHEMERAL.
C26_Ephemeral ==
    [][/\ (last'.op = "close" /\ env.isopen /\ "MDB_EPHEMERAL" \in env.flags)
             => ~disk'[<<env'.path, "MDB_NOSUBDIR" \in env'.flags>>].exists
       /\ \A l \in Locations :
             (disk[l].exists /\ ~disk'[l].exists)
                => /\ \A h \in EnvHandles : ~(henv'[h].state = "open" /\ henv'[h].loc = l)
                   /\ \A h \in EnvHandles : ~(henv[h].state = "open" /\ henv[h].loc = l)
                         \/ last'.op = "close"
       /\ \A h \in EnvHandles : "MDB_EPHEMERAL" \notin henv'[h].flags]_vars

\* close() ended an open ephemeral environment and its files are gone.
C26_Witness ==
    /\ last.op = "close" /\ last.arg = <<TRUE>> /\ last.eng
    /\ "MDB_EPHEMERAL" \in env.flags
    /\ ~exist(env)

\* C27: remove() on an open environment returns false and deletes no file.
C27_RemoveWhileOpen ==
    [][(last'.op = "remove" /\ env.isopen) => (last'.rc = "false" /\ disk' = disk)]_vars

C27_Witness ==
    /\ last.op = "remove" /\ last.rc = "false"
    /\ env.isopen /\ exist(env)

C30_EnvMove ==
    [][/\ (last'.op \in {"move_construct", "move_assign"})
             => (/\ env'.envptr = 0 /\ ~env'.isopen
                 /\ other'.alive
                 /\ other'.fields.envptr = env.envptr
                 /\ other'.fields.isopen = env.isopen
                 /\ Options(other'.fields) = Options(env))
       /\ (last'.op = "move_back")
             => (/\ other'.fields.envptr = 0 /\ ~other'.fields.isopen
                 /\ env'.envptr = other.fields.envptr
                 /\ env'.isopen = other.fields.isopen
                 /\ Options(env') = Options(other.fields))
       /\ (env'.envptr # 0 /\ other'.alive) => env'.envptr # other'.fields.envptr
       /\ (last.op \in {"move_construct", "move_assign"} /\ last'.op = "close")
             => (henv' = henv /\ disk' = disk /\ other' = other)]_vars

\* The object moved from, which keeps MDB_EPHEMERAL among its flags, was closed
\* while the destination has the environment open on its files.
C30_Witness ==
    /\ last.op = "close" /\ env.envptr = 0
    /\ "MDB_EPHEMERAL" \in env.flags
    /\ other.alive /\ other.fields.isopen /\ exist(other.fields)
    /\ henv[other.fields.envptr].state = "open"

TxnMoves == {"txn_move_construct", "txn_move_assign"}

\* C29: a move of a txn_t, by construction or by assignment, leaves the
\* destination pending exactly when the source was, with the source's native
\* transaction, environment and type; the source is not pending and holds no
\* handle; the transaction the destination of a move assignment had pending is
\* aborted; and no other txn_t holds the native transaction the destination
\* holds.
C29_TxnMove ==
    [][(last'.op \in TxnMoves /\ ~ub') =>
         LET d == last'.t
             s == last'.arg[1]
         IN
         /\ pending(txn'[d]) = pending(txn[s])
         /\ txn'[d].txnptr = txn[s].txnptr
         /\ txn'[d].envptr = txn[s].envptr
         /\ txn'[d].type = txn[s].type
         /\ txn'[d].alive
         /\ ~pending(txn'[s]) /\ txn'[s].txnptr = 0
         /\ (last'.op = "txn_move_assign" /\ pending(txn[d]))
               => (ntxn'[txn[d].txnptr].state = "freed" /\ txn[d].txnptr # txn'[d].txnptr)
         /\ \A n \in NativeTxns \ {txn[d].txnptr} : ntxn'[n] = ntxn[n]
         /\ txn'[d].txnptr # 0
               => \A u \in TxnObjs \ {d} : txn'[u].txnptr # txn'[d].txnptr]_vars

\* A move assignment took a pending transaction into a txn_t that had one
\* pending itself.
C29_Witness ==
    /\ last.op = "txn_move_assign" /\ ~ub
    /\ pending(txn[last.t]) /\ Live(txn[last.t].txnptr)
    /\ \E n \in NativeTxns : n # txn[last.t].txnptr /\ ntxn[n].state = "freed"
    /\ ~pending(txn[last.arg[1]])

\* A move construction took a pending transaction out of its source.
C29_WitnessConstruct ==
    /\ last.op = "txn_move_construct" /\ ~ub
    /\ pending(txn[last.t]) /\ Live(txn[last.t].txnptr)
    /\ txn[last.arg[1]].alive /\ txn[last.arg[1]].txnptr = 0

\* C33: open() on an environment that is open returns MDB_INVALID and changes
\* nothing: the environment stays open on the same native handle and the
\* engine is not called, neither to close nor to create.
C33_OpenWhileOpen ==
    [][(last'.op = "open" /\ env.isopen)
       => (/\ last'.rc = "MDB_INVALID"
           /\ env'.isopen /\ env'.envptr = env.envptr
           /\ henv' = henv /\ ntxn' = ntxn /\ disk' = disk)]_vars

\* C34: the wrapper hands the engine no transaction to commit or abort, and no
\* environment to close, that the engine has released before; also not after a
\* commit() that failed.
C34_ReleasedOnce ==
    [][/\ (last'.op \in {"commit", "abort"} /\ txn[last'.t].txnptr # 0)
             => Held(txn[last'.t].txnptr)
       /\ (last'.op = "txn_move_assign" /\ cleanup_aborts(txn[last'.t]))
             => Held(txn[last'.t].txnptr)
       /\ (last'.op = "close" /\ env.envptr # 0) => EnvIsLive(env.envptr)]_vars

\* C36: begin() succeeds only on an environment that is open, and on a native
\* environment that was created and not opened it returns an error without a
\* call of mdb_txn_begin.
C36_BeginNeedsOpenEnv ==
    [][(last'.op \in {"begin", "begin_wait"} /\ ~EnvIsOpen(txn[last'.t].envptr))
       => (last'.rc # "MDB_SUCCESS" /\ ub' = ub /\ ntxn' = ntxn)]_vars

\* C39: renew() returns success only when mdb_txn_renew succeeded, which it
\* does on a read-only transaction that was reset and on no other.
C39_RenewStatus ==
    [][(last'.op = "renew" /\ last'.rc = "MDB_SUCCESS")
       => LET n == txn[last'.t].txnptr IN
          Held(n) /\ ntxn[n].rdonly /\ ntxn[n].state = "reset"]_vars

\* C40: a txn_t is pending exactly when its handle is not null.
C40_PendingIffHandle ==
    \A t \in TxnObjs : txn[t].alive => (pending(txn[t]) <=> txn[t].txnptr # 0)

\* One txn_t holds a handle, taken over by a move and reset since, and is
\* pending; the txn_t it was moved from holds none and is not.
C40_Witness ==
    /\ last.op = "reset" /\ last.rc = "MDB_SUCCESS"
    /\ \E t, u \in TxnObjs :
         /\ t # u /\ txn[t].alive /\ txn[u].alive
         /\ txn[t].txnptr # 0 /\ pending(txn[t])
         /\ txn[u].txnptr = 0 /\ ~pending(txn[u]) /\ txn[u].envptr = 0

\* C35: an env_t that is open has a native handle, which the engine has open,
\* and the engine holds no native environment but the one the env_t points to.
C35_OpenHasHandle ==
    /\ env.isopen => (env.envptr # 0 /\ henv[env.envptr].state = "open")
    /\ HeldEnvs \subseteq {env.envptr}
    /\ Cardinality(HeldEnvs) <= 1

\* The env_t is open on a handle made after an earlier one was closed.
C35_Witness ==
    /\ env.isopen /\ env.envptr > 1
    /\ henv[env.envptr].state = "open"
    /\ \E h \in EnvHandles : henv[h].state = "closed"

\* Database handle d is usable in native environment h: the environment is
\* open, and d is the unnamed database, or a named one that exists and was
\* opened in a committed transaction, or one opened in a transaction still held.
ValidIn(h, d) ==
    /\ henv[h].state = "open"
    /\ \/ d = MAIN_DBI
       \/ d \in henv[h].dbis /\ Committed(h)[NameOf(d)].exists
       \/ \E n \in NativeTxns :
            /\ Held(n) /\ ntxn[n].env = h
            /\ d \in ntxn[n].dbis /\ ntxn[n].view[NameOf(d)].exists

\* C37: every call txn_t makes to the engine with its environment handle is
\* made while the engine holds that handle: begin() does not pass on a handle
\* the env_t has released.
C37_LiveEnvHandle ==
    [][(/\ last'.op \in {"begin", "begin_wait"}
        /\ txn[last'.t].envptr # 0 /\ txn[last'.t].txnptr = 0)
       => EnvIsLive(txn[last'.t].envptr)]_vars

\* C38: a dbi_t that reports itself open holds an identifier that is valid in
\* the engine: its database exists, in an environment that is open.
C38_OpenDbiValid ==
    dbi.opened_ => \E h \in EnvHandles : ValidIn(h, dbi.dbi_)

\* Key k is the i-th of the store from the front, or from the back.
IsNthKey(k, i) == k \in cur.store /\ Cardinality({y \in cur.store : y < k}) = i - 1
IsNthKeyBack(k, i) == k \in cur.store /\ Cardinality({y \in cur.store : y > k}) = i - 1

\* C31: over a sub-database of n keys, first() and the next() calls after it
\* return the keys in ascending order, each once: the i-th call returns the
\* i-th key, and the call that returns not-found is the (n+1)-th; last() and
\* the prior() calls after it do the same in descending order.
C31_Traversal ==
    /\ cur.run \in {"fwd", "fwd_end"}
          => \A i \in 1..Len(cur.trail) : IsNthKey(cur.trail[i], i)
    /\ cur.run \in {"back", "back_end"}
          => \A i \in 1..Len(cur.trail) : IsNthKeyBack(cur.trail[i], i)
    /\ cur.run \in {"fwd", "back"}
          => (/\ last.rc = "MDB_SUCCESS"
              /\ Len(cur.trail) >= 1
              /\ last.key = cur.trail[Len(cur.trail)])
    /\ cur.run \in {"fwd_end", "back_end"}
          => (/\ last.rc = "MDB_NOTFOUND"
              /\ Len(cur.trail) = Cardinality(cur.store))

\* A forward run over a full sub-database met not-found after all its keys.
C31_Witness ==
    /\ cur.run = "fwd_end" /\ last.op = "next" /\ last.rc = "MDB_NOTFOUND"
    /\ Cardinality(cur.store) = MaxCursorKeys
    /\ Len(cur.trail) = MaxCursorKeys

\* The same for a backward run.
C31_WitnessBack ==
    /\ cur.run = "back_end" /\ last.op = "prior" /\ last.rc = "MDB_NOTFOUND"
    /\ Cardinality(cur.store) = MaxCursorKeys
    /\ Len(cur.trail) = MaxCursorKeys

\* C32: search(k) returns, and stands on, the smallest stored key that is
\* greater than or equal to k, and not-found when there is none; find(k)
\* returns k when k is stored and not-found when it is not.
C32_SearchFind ==
    [][/\ last'.op = "search"
          => LET k == last'.arg[1]
                 ge == {x \in cur.store : x >= k}
             IN IF ge = {} THEN last'.rc = "MDB_NOTFOUND" /\ last'.key = NoKey
                ELSE /\ last'.rc = "MDB_SUCCESS"
                     /\ last'.key \in ge /\ \A x \in ge : last'.key <= x
                     /\ cur'.pos = last'.key
       /\ last'.op = "find"
          => LET k == last'.arg[1]
             IN IF k \in cur.store
                THEN last'.rc = "MDB_SUCCESS" /\ last'.key = k /\ cur'.pos = k
                ELSE last'.rc = "MDB_NOTFOUND" /\ last'.key = NoKey]_vars

\* search() ended on a stored key greater than a target that is not stored.
C32_Witness ==
    /\ last.op = "search" /\ last.rc = "MDB_SUCCESS"
    /\ last.key > last.arg[1] /\ last.arg[1] \notin cur.store
    /\ cur.pos = last.key

====
